---- MODULE Spec2Model ----
(***************************************************************************)
(* HSEG scoring, aggregation and decision engine.                          *)
(*                                                                         *)
(* Numbers are fixed-point integers:                                       *)
(*   - a predictor output is in thousandths (2500 is 2.5);                 *)
(*   - a category score, a confidence, a sentiment is in hundredths;       *)
(*   - a weight and MAX_TOTAL_POINTS are in tenths (555 is 55.5);          *)
(*   - NORMALIZED_MAX is in units of one;                                  *)
(*   - weighted points are in units of 1/PointDen;                         *)
(*   - the 28-point score is a numerator over Score28Den.                  *)
(***************************************************************************)
EXTENDS Integers, Sequences, FiniteSets, TLC

VARIABLES
    request,           \* the arguments of the call under analysis
    prediction,        \* result of IndividualRiskPredictor.predict
    text_result,       \* result of TextRiskClassifier.predict_text_risk
    org_result,        \* result of predict_organizational_risk
    pipeline,          \* HSEGMLPipeline instance state
    campaign_result,   \* result of the last process_survey_campaign call
    disk,              \* the model files under app/models/trained
    db,                \* the database: campaigns and what was stored
    calls,             \* number of pipeline calls made so far
    health_status      \* result of the last health_check or get_pipeline_status

vars == <<request, prediction, text_result, org_result, pipeline, campaign_result,
          disk, db, calls, health_status>>

None == [kind |-> "none"]

Cats == 1..6

Min(a, b) == IF a < b THEN a ELSE b
Max(a, b) == IF a > b THEN a ELSE b
Abs(a) == IF a < 0 THEN -a ELSE a

\* dict.get(key, default)
Get(d, k, default) == IF k \in DOMAIN d THEN d[k] ELSE default

RECURSIVE SumOver(_, _)
SumOver(f, S) ==
    IF S = {} THEN 0
    ELSE LET x == CHOOSE y \in S : TRUE IN f[x] + SumOver(f, S \ {x})

(***************************************************************************)
(* app/core/scoring.py                                                     *)
(***************************************************************************)
CATEGORY_CONFIG ==
    [c \in Cats |->
        CASE c = 1 -> [weight |-> 30, num_questions |-> 4]
          [] c = 2 -> [weight |-> 25, num_questions |-> 3]
          [] c = 3 -> [weight |-> 20, num_questions |-> 3]
          [] c = 4 -> [weight |-> 30, num_questions |-> 4]
          [] c = 5 -> [weight |-> 25, num_questions |-> 4]
          [] c = 6 -> [weight |-> 20, num_questions |-> 4]]

CATEGORY_WEIGHTS == [c \in Cats |-> CATEGORY_CONFIG[c].weight]

MAX_TOTAL_POINTS == 555
NORMALIZED_MAX == 28

\* one weighted point, in the unit of the sums below: score (1/100) / 4.0
\* times num_questions * weight (1/10)
PointDen == 100 * 4 * 10
\* denominator of the 28-point score
Score28Den == (PointDen * MAX_TOTAL_POINTS) \div 10

\* a value of the 28-point scale given in hundredths, over Score28Den
Pts28(h) == h * (Score28Den \div 100)

THRESHOLDS_28 ==
    [crisis_max |-> Pts28(1200), at_risk_max |-> Pts28(1600),
     mixed_max |-> Pts28(2000), safe_max |-> Pts28(2400)]

\* a faulty variant: points scaled to one less than NORMALIZED_MAX
NormalizeTo27(total_weighted_points) == total_weighted_points * (NORMALIZED_MAX - 1)

\* (total_weighted_points / MAX_TOTAL_POINTS) * NORMALIZED_MAX; the argument
\* is in 1/PointDen, the result a numerator over Score28Den
normalize_points_to_28(total_weighted_points) ==
    total_weighted_points * NORMALIZED_MAX

(***************************************************************************)
(* app/models/individual_risk_model.py                                     *)
(***************************************************************************)
\* len(features): 22 survey answers, 11 demographic, 5 quality, 12 text
FeatureCount == 22 + 11 + 5 + 12

\* max(1.0, min(4.0, score)), on thousandths
ClampScore(raw) == Max(1000, Min(4000, raw))

\* round(score, 2): thousandths to hundredths, to the nearest
Round2(t) == (t + 5) \div 10

\* per-category level, decided on the clamped, unrounded score
CategoryRiskLevel(score) ==
    IF score < 1500 THEN "Crisis"
    ELSE IF score < 2500 THEN "At Risk"
    ELSE IF score < 3000 THEN "Mixed"
    ELSE IF score < 3500 THEN "Safe"
    ELSE "Thriving"

\* a faulty variant: the third category counts against the total
ContributionInverted(cat_id, score) ==
    (IF cat_id = 3 THEN 500 - score ELSE score)
    * (CATEGORY_CONFIG[cat_id].num_questions * CATEGORY_CONFIG[cat_id].weight)

\* contribution = (score / 4.0) * (num_questions * weight), in 1/PointDen
Contribution(cat_id, score) ==
    score * (CATEGORY_CONFIG[cat_id].num_questions * CATEGORY_CONFIG[cat_id].weight)

TotalWeightedPoints(category_scores) ==
    SumOver([c \in Cats |-> Contribution(c, category_scores[c])], Cats)

OverallScore28(category_scores) ==
    normalize_points_to_28(TotalWeightedPoints(category_scores))

\* a faulty variant: thresholds exclusive of their upper bound
OverallTierExclusive(overall_score_28) ==
    IF overall_score_28 < THRESHOLDS_28.crisis_max THEN "Crisis"
    ELSE IF overall_score_28 < THRESHOLDS_28.at_risk_max THEN "At Risk"
    ELSE IF overall_score_28 < THRESHOLDS_28.mixed_max THEN "Mixed"
    ELSE IF overall_score_28 < THRESHOLDS_28.safe_max THEN "Safe"
    ELSE "Thriving"

\* the if/elif chain on risk_thresholds_28
OverallTier(overall_score_28) ==
    IF overall_score_28 <= THRESHOLDS_28.crisis_max THEN "Crisis"
    ELSE IF overall_score_28 <= THRESHOLDS_28.at_risk_max THEN "At Risk"
    ELSE IF overall_score_28 <= THRESHOLDS_28.mixed_max THEN "Mixed"
    ELSE IF overall_score_28 <= THRESHOLDS_28.safe_max THEN "Safe"
    ELSE "Thriving"

\* round(overall_score_28, 2): a numerator over Score28Den to hundredths
RoundScore28(num) == (2 * 100 * num + Score28Den) \div (2 * Score28Den)

\* np.var(scores) of the six category scores, times 36 (hundredths squared)
ScoreVariance36(category_scores) ==
    LET sum == SumOver(category_scores, Cats)
        sq  == SumOver([c \in Cats |-> category_scores[c] * category_scores[c]], Cats)
    IN 6 * sq - sum * sum

\* a variance bound given in hundredths, on the scale of ScoreVariance36
Var36(h) == h * 100 * 36

\* a faulty variant: no clamp, and agreement of the scores counts three times
ConfidenceUnclamped(feature_count, category_scores) ==
    70 + (IF feature_count >= 50 THEN 10 ELSE 0)
    + (IF ScoreVariance36(category_scores) < Var36(50) THEN 30
       ELSE IF ScoreVariance36(category_scores) > Var36(150) THEN -30 ELSE 0)

\* _calculate_confidence(features_scaled, category_scores), in hundredths
calculate_confidence(feature_count, category_scores) ==
    LET base == 70
        quality == IF feature_count >= 50 THEN 10 ELSE 0
        score_variance == ScoreVariance36(category_scores)
        consistency == IF score_variance < Var36(50) THEN 10
                       ELSE IF score_variance > Var36(150) THEN -10
                       ELSE 0
    IN Max(50, Min(99, base + quality + consistency))

category_names ==
    [c \in Cats |->
        CASE c = 1 -> "Authority abuse and retaliation fears"
          [] c = 2 -> "Discrimination and exclusion experiences"
          [] c = 3 -> "Emotional manipulation and boundary violations"
          [] c = 4 -> "System accountability failures"
          [] c = 5 -> "Work-related mental health harm"
          [] c = 6 -> "Voice suppression and disempowerment"]

\* the first n elements of a sequence: seq[:n]
Take(seq, n) == SubSeq(seq, 1, Min(n, Len(seq)))

\* the factors of the categories c..6 scoring below 2.0, in category order
RECURSIVE CategoryFactors(_, _)
CategoryFactors(category_scores, c) ==
    IF c > 6 THEN <<>>
    ELSE (IF category_scores[c] < 200 THEN <<category_names[c]>> ELSE <<>>)
         \o CategoryFactors(category_scores, c + 1)

\* _identify_risk_factors(response_data, category_scores)
identify_risk_factors(rd, category_scores) ==
    LET text_analysis == Get(rd, "text_analysis", <<>>)
        demographics == Get(rd, "demographics", <<>>)
        factors ==
            CategoryFactors(category_scores, 1)
            \o (IF Get(text_analysis, "crisis_language_present", FALSE)
                THEN <<"Crisis-level language in responses">> ELSE <<>>)
            \o (IF Get(text_analysis, "specific_incident_described", FALSE)
                THEN <<"Specific harmful incidents reported">> ELSE <<>>)
            \o (IF Get(demographics, "tenure_range", "") = "<1_year"
                THEN <<"New employee vulnerability">> ELSE <<>>)
    IN Take(factors, 5)

\* sorted(category_scores.items(), key=lambda x: x[1]): ascending by score,
\* equal scores in category order (the sort is stable)
RECURSIVE SortedByScore(_, _)
SortedByScore(category_scores, S) ==
    IF S = {} THEN <<>>
    ELSE LET first == CHOOSE c \in S : \A d \in S :
                          \/ category_scores[c] < category_scores[d]
                          \/ category_scores[c] = category_scores[d] /\ c <= d
         IN <<first>> \o SortedByScore(category_scores, S \ {first})

intervention_mapping ==
    [c \in Cats |->
        CASE c = 1 -> [category |-> "Power Abuse & Suppression", urgency |-> "Immediate",
                       effort |-> "Medium", impact |-> "High"]
          [] c = 2 -> [category |-> "Discrimination & Exclusion", urgency |-> "High",
                       effort |-> "Medium", impact |-> "High"]
          [] c = 3 -> [category |-> "Manipulative Work Culture", urgency |-> "Medium",
                       effort |-> "Low", impact |-> "Medium"]
          [] c = 4 -> [category |-> "Failure of Accountability", urgency |-> "Immediate",
                       effort |-> "High", impact |-> "High"]
          [] c = 5 -> [category |-> "Mental Health Harm", urgency |-> "Immediate",
                       effort |-> "Low", impact |-> "High"]
          [] c = 6 -> [category |-> "Erosion of Voice & Autonomy", urgency |-> "Medium",
                       effort |-> "Medium", impact |-> "Medium"]]

RECURSIVE InterventionsFor(_, _)
InterventionsFor(category_scores, worst) ==
    IF worst = <<>> THEN <<>>
    ELSE (IF category_scores[Head(worst)] < 250
          THEN <<intervention_mapping[Head(worst)]>> ELSE <<>>)
         \o InterventionsFor(category_scores, Tail(worst))

\* a variant that looks at every category instead of the three lowest
generate_interventions_every_category(category_scores, overall_tier) ==
    IF overall_tier \in {"Crisis", "At Risk"}
    THEN InterventionsFor(category_scores, SortedByScore(category_scores, Cats))
    ELSE <<>>

\* _generate_interventions(category_scores, overall_tier)
generate_interventions(category_scores, overall_tier) ==
    IF overall_tier \in {"Crisis", "At Risk"}
    THEN InterventionsFor(category_scores, Take(SortedByScore(category_scores, Cats), 3))
    ELSE <<>>

\* IndividualRiskPredictor.predict(response_data). What the scaler and the six
\* ensemble models answer comes with the request: rd.model_raises when one of
\* them raises, otherwise rd.model_output, the six predicted scores in
\* thousandths. The result's overall_score_28 is the unrounded local variable.
predict(is_trained, rd) ==
    IF ~is_trained
    THEN [kind |-> "raise", error |-> "Model must be trained before making predictions"]
    ELSE IF rd.model_raises
    THEN [kind |-> "error", response_id |-> Get(rd, "response_id", "unknown")]
    ELSE
    LET clamped == [c \in Cats |-> ClampScore(rd.model_output[c])]
        category_scores == [c \in Cats |-> Round2(clamped[c])]
        category_risks == [c \in Cats |-> CategoryRiskLevel(clamped[c])]
        overall_score_28 == OverallScore28(category_scores)
        overall_tier == OverallTier(overall_score_28)
    IN [kind |-> "ok",
        response_id |-> Get(rd, "response_id", "unknown"),
        overall_hseg_score |-> RoundScore28(overall_score_28),
        overall_risk_tier |-> overall_tier,
        category_scores |-> category_scores,
        category_risk_levels |-> category_risks,
        confidence_score |-> calculate_confidence(FeatureCount, category_scores),
        contributing_factors |-> identify_risk_factors(rd, category_scores),
        recommended_interventions |-> generate_interventions(category_scores, overall_tier),
        overall_score_28 |-> overall_score_28]

(***************************************************************************)
(* app/models/text_risk_classifier.py                                      *)
(* A text is a string; its i-th character is SubSeq(text, i, i).           *)
(***************************************************************************)
UpperLetters == <<"A", "B", "C", "D", "E", "F", "G", "H", "I", "J", "K", "L", "M",
                  "N", "O", "P", "Q", "R", "S", "T", "U", "V", "W", "X", "Y", "Z">>
LowerLetters == <<"a", "b", "c", "d", "e", "f", "g", "h", "i", "j", "k", "l", "m",
                  "n", "o", "p", "q", "r", "s", "t", "u", "v", "w", "x", "y", "z">>
Digits == {"0", "1", "2", "3", "4", "5", "6", "7", "8", "9"}

CharAt(text, i) == SubSeq(text, i, i)

\* c.isupper()
IsUpper(ch) == \E i \in DOMAIN UpperLetters : UpperLetters[i] = ch
IsLower(ch) == \E i \in DOMAIN LowerLetters : LowerLetters[i] = ch
\* \s
IsSpace(ch) == ch \in {" ", "\t", "\n"}
\* \w
IsWord(ch) == IsUpper(ch) \/ IsLower(ch) \/ ch \in Digits \/ ch = "_"
\* [\w\s.,!?;:-]
IsKept(ch) == IsWord(ch) \/ IsSpace(ch) \/ ch \in {".", ",", "!", "?", ";", ":", "-"}

LowerChar(ch) ==
    IF IsUpper(ch)
    THEN LowerLetters[CHOOSE i \in DOMAIN UpperLetters : UpperLetters[i] = ch]
    ELSE ch

\* text.lower(), from character i on
RECURSIVE LowerFrom(_, _)
LowerFrom(text, i) ==
    IF i > Len(text) THEN ""
    ELSE LowerChar(CharAt(text, i)) \o LowerFrom(text, i + 1)

RECURSIVE FirstNonSpace(_, _)
FirstNonSpace(text, i) ==
    IF i > Len(text) \/ ~IsSpace(CharAt(text, i)) THEN i
    ELSE FirstNonSpace(text, i + 1)

RECURSIVE LastNonSpace(_, _)
LastNonSpace(text, i) ==
    IF i < 1 \/ ~IsSpace(CharAt(text, i)) THEN i
    ELSE LastNonSpace(text, i - 1)

\* text.strip()
Strip(text) == SubSeq(text, FirstNonSpace(text, 1), LastNonSpace(text, Len(text)))

\* re.sub(r'\s+', ' ', text), from character i on
RECURSIVE CollapseFrom(_, _)
CollapseFrom(text, i) ==
    IF i > Len(text) THEN ""
    ELSE IF IsSpace(CharAt(text, i))
    THEN " " \o CollapseFrom(text, FirstNonSpace(text, i))
    ELSE CharAt(text, i) \o CollapseFrom(text, i + 1)

\* re.sub(r'[^\w\s.,!?;:-]', '', text), from character i on
RECURSIVE KeepFrom(_, _)
KeepFrom(text, i) ==
    IF i > Len(text) THEN ""
    ELSE (IF IsKept(CharAt(text, i)) THEN CharAt(text, i) ELSE "")
         \o KeepFrom(text, i + 1)

\* preprocess_text(text)
preprocess_text(text) ==
    IF text = "" THEN ""
    ELSE KeepFrom(CollapseFrom(Strip(LowerFrom(text, 1)), 1), 1)

\* keyword in text
Contains(text, keyword) ==
    \E i \in 1..(Len(text) - Len(keyword) + 1) :
        SubSeq(text, i, i + Len(keyword) - 1) = keyword

\* text.count(ch)
CountChar(text, ch) == Cardinality({i \in 1..Len(text) : CharAt(text, i) = ch})

\* the elements of a sequence of keywords that occur in the text, in order
RECURSIVE FoundIn(_, _, _)
FoundIn(text, keywords, i) ==
    IF i > Len(keywords) THEN <<>>
    ELSE (IF Contains(text, LowerFrom(keywords[i], 1)) THEN <<keywords[i]>> ELSE <<>>)
         \o FoundIn(text, keywords, i + 1)

TextCats == <<"power_abuse", "discrimination", "manipulation", "accountability",
              "mental_health", "voice_autonomy">>

risk_keywords ==
    [power_abuse |->
        <<"threatened", "intimidated", "bullied", "screamed", "yelled",
          "retaliation", "punished", "silenced", "afraid to speak",
          "fear consequences", "abuse of power", "harassment">>,
     discrimination |->
        <<"discriminated", "excluded", "bias", "unfair treatment",
          "different standards", "not included", "passed over",
          "because of my", "treated differently", "prejudice">>,
     manipulation |->
        <<"manipulated", "forced to smile", "fake positivity",
          "emotional manipulation", "guilt trip", "pressure to be happy",
          "toxic positivity", "forced enthusiasm">>,
     accountability |->
        <<"no action taken", "ignored complaint", "covered up",
          "protected abuser", "investigation ignored", "no consequences",
          "swept under rug", "nothing happened">>,
     mental_health |->
        <<"panic attacks", "anxiety", "depression", "stressed",
          "overwhelmed", "burnout", "breaking down", "mental health",
          "suicidal thoughts", "can't cope", "emotional breakdown">>,
     voice_autonomy |->
        <<"not listened to", "ignored suggestions", "no input",
          "micromanaged", "no autonomy", "powerless", "no control",
          "decisions made for me", "not consulted">>]

crisis_keywords ==
    <<"suicide", "kill myself", "end it all", "can't go on",
      "want to die", "no point living", "panic attacks daily",
      "threatened to fire", "threatened my visa", "called me stupid",
      "screamed at me", "humiliated publicly", "afraid for safety">>

emotional_words ==
    <<"extremely", "severely", "terrible", "awful", "horrible",
      "devastating", "overwhelming", "unbearable", "impossible",
      "constantly", "always", "never", "every day", "all the time">>

incident_keywords == <<"happened to me", "my manager", "my supervisor", "I was">>

\* extract_keywords(text): category -> keywords found; a category without a
\* match has no entry, here the empty sequence
extract_keywords(text) ==
    LET t == preprocess_text(text)
    IN [cat \in DOMAIN risk_keywords |-> FoundIn(t, risk_keywords[cat], 1)]

\* len(keywords): the categories with at least one keyword found
NumKeywordCategories(keywords) ==
    Cardinality({cat \in DOMAIN keywords : keywords[cat] # <<>>})

\* detect_crisis_language(text)
detect_crisis_language(text) ==
    LET t == preprocess_text(text)
        crisis_signals == FoundIn(t, crisis_keywords, 1)
    IN [has_crisis_language |-> Len(crisis_signals) > 0,
        crisis_keywords |-> crisis_signals,
        crisis_count |-> Len(crisis_signals)]

\* calculate_emotional_intensity(text): min(1.0, emotional_count * 0.2 +
\* exclamations * 0.1 + caps_ratio * 0.3) as a numerator over IntensityDen(text)
IntensityDen(text) == 10 * Max(Len(text), 1)

calculate_emotional_intensity(text) ==
    IF text = "" THEN 0
    ELSE LET text_lower == LowerFrom(text, 1)
             emotional_count ==
                 Cardinality({i \in DOMAIN emotional_words :
                                 Contains(text_lower, emotional_words[i])})
             exclamations == CountChar(text, "!")
             caps == Cardinality({i \in 1..Len(text) : IsUpper(CharAt(text, i))})
         IN Min(IntensityDen(text),
                (2 * emotional_count + exclamations) * Max(Len(text), 1) + 3 * caps)

\* denominator of a category risk: thousandths of the intensity's unit
RiskDen(text) == 1000 * Max(Len(text), 1)

\* a risk or intensity bound given in tenths, compared with num / den
AtLeastTenths(num, den, tenths) == 10 * num >= tenths * den
MoreThanTenths(num, den, tenths) == 10 * num > tenths * den

\* _rule_based_classification(keywords, crisis, intensity, sentiment): the risk
\* of one category, a numerator over RiskDen(text); sentiment in hundredths
RuleBasedRisk(category_name, text, keywords, crisis, intensity, sentiment) ==
    LET len == Max(Len(text), 1)
        keyword_boost ==
            IF keywords[category_name] # <<>>
            THEN Min(600, Len(keywords[category_name]) * 200) * len ELSE 0
        crisis_boost ==
            IF crisis.has_crisis_language
               /\ category_name \in {"power_abuse", "mental_health"}
            THEN 400 * len ELSE 0
        intensity_boost ==
            IF MoreThanTenths(intensity, IntensityDen(text), 5)
            THEN 30 * intensity ELSE 0
        sentiment_boost ==
            IF sentiment.sentiment_score < -30
            THEN 2 * Abs(sentiment.sentiment_score) * len ELSE 0
    IN Min(RiskDen(text),
           keyword_boost + crisis_boost + intensity_boost + sentiment_boost)

rule_based_classification(text, keywords, crisis, intensity, sentiment) ==
    [cat \in DOMAIN risk_keywords |->
        RuleBasedRisk(cat, text, keywords, crisis, intensity, sentiment)]

\* _model_based_classification(text): the trained classifier's probabilities
\* (thousandths), on the scale of RiskDen(text)
model_based_classification(text, probabilities) ==
    [cat \in DOMAIN risk_keywords |-> probabilities[cat] * Max(Len(text), 1)]

MaxRisk(category_risks) ==
    CHOOSE m \in {category_risks[c] : c \in DOMAIN category_risks} :
        \A c \in DOMAIN category_risks : category_risks[c] <= m

risk_levels == <<"Low", "Medium", "High", "Critical">>

\* a faulty variant: crisis language does not override the category risks
OverallRiskByCategories(crisis_detection, max_risk, den) ==
    IF AtLeastTenths(max_risk, den, 7) THEN 2
    ELSE IF AtLeastTenths(max_risk, den, 4) THEN 1
    ELSE 0

\* the overall_risk computed by predict_text_risk: 0..3
OverallRisk(crisis_detection, max_risk, den) ==
    IF crisis_detection.has_crisis_language THEN 3
    ELSE IF AtLeastTenths(max_risk, den, 7) THEN 2
    ELSE IF AtLeastTenths(max_risk, den, 4) THEN 1
    ELSE 0

\* _calculate_prediction_confidence(keywords, crisis, intensity, sentiment),
\* in hundredths
calculate_prediction_confidence(text, keywords, crisis, intensity, sentiment) ==
    LET n == NumKeywordCategories(keywords)
        by_keywords == IF n > 0 THEN Min(30, n * 10) ELSE 0
        by_crisis == IF crisis.has_crisis_language THEN 20 ELSE 0
        by_emotion ==
            IF MoreThanTenths(intensity, IntensityDen(text), 5)
               \/ Abs(sentiment.sentiment_score) > 50
            THEN 15 ELSE 0
    IN Min(95, 50 + by_keywords + by_crisis + by_emotion)

\* _empty_prediction()
empty_prediction ==
    [kind |-> "empty",
     category_risks |-> [cat \in DOMAIN risk_keywords |-> 0],
     risk_den |-> RiskDen(""),
     overall_risk_level |-> "Low",
     overall_risk_score |-> 0,
     sentiment_analysis |-> [sentiment_score |-> 0, confidence |-> 0],
     emotional_intensity |-> 0,
     intensity_den |-> IntensityDen(""),
     crisis_detection |-> [has_crisis_language |-> FALSE, crisis_keywords |-> <<>>,
                           crisis_count |-> 0],
     risk_keywords |-> [cat \in DOMAIN risk_keywords |-> <<>>],
     confidence_score |-> 0,
     intervention_recommended |-> FALSE]

\* analyze_sentiment(text): the sentiment pipeline's answer comes with the
\* request; when loading or running it raises, the fallback
analyze_sentiment(req) ==
    IF req.sentiment_raises THEN [sentiment_score |-> 0, confidence |-> 50]
    ELSE req.sentiment

\* predict_text_risk(text); classifier is the TextRiskClassifier's state
predict_text_risk(classifier, req) ==
    IF req.text = "" \/ Len(Strip(req.text)) < 3 THEN empty_prediction
    ELSE
    LET processed_text == preprocess_text(req.text)
        keywords == extract_keywords(processed_text)
        crisis_detection == detect_crisis_language(processed_text)
        emotional_intensity == calculate_emotional_intensity(processed_text)
        sentiment == analyze_sentiment(req)
        category_risks ==
            IF ~classifier.is_trained \/ ~classifier.has_model
            THEN rule_based_classification(processed_text, keywords, crisis_detection,
                                           emotional_intensity, sentiment)
            ELSE model_based_classification(processed_text, req.probabilities)
        max_risk == MaxRisk(category_risks)
        overall_risk == OverallRisk(crisis_detection, max_risk, RiskDen(processed_text))
    IN [kind |-> "ok",
        category_risks |-> category_risks,
        risk_den |-> RiskDen(processed_text),
        overall_risk_level |-> risk_levels[overall_risk + 1],
        overall_risk_score |-> overall_risk,
        sentiment_analysis |-> sentiment,
        emotional_intensity |-> emotional_intensity,
        intensity_den |-> IntensityDen(processed_text),
        crisis_detection |-> crisis_detection,
        risk_keywords |-> keywords,
        risk_indicators |->
            [has_specific_incidents |->
                 \E i \in DOMAIN incident_keywords :
                     Contains(processed_text, incident_keywords[i]),
             has_emotional_language |->
                 MoreThanTenths(emotional_intensity, IntensityDen(processed_text), 3),
             has_negative_sentiment |-> sentiment.sentiment_score < -30,
             has_multiple_categories |-> NumKeywordCategories(keywords) > 2],
        confidence_score |->
            calculate_prediction_confidence(processed_text, keywords, crisis_detection,
                                            emotional_intensity, sentiment),
        intervention_recommended |->
            crisis_detection.has_crisis_language \/ overall_risk >= 2]

(***************************************************************************)
(* app/models/organizational_risk_model.py                                 *)
(* A mean is kept as the sum of the values (hundredths) and their number;  *)
(* a rate as a count over the sample size; a derived quantity as a         *)
(* numerator over the denominator named next to it.                        *)
(***************************************************************************)
industry_baselines == [Healthcare |-> 1650, University |-> 1920, Business |-> 1800]

org_category_names ==
    <<"Power_Abuse_Suppression", "Discrimination_Exclusion", "Manipulative_Work_Culture",
      "Failure_Of_Accountability", "Mental_Health_Harm", "Erosion_Voice_Autonomy">>

org_category_weights ==
    [Power_Abuse_Suppression |-> 30, Discrimination_Exclusion |-> 25,
     Manipulative_Work_Culture |-> 20, Failure_Of_Accountability |-> 30,
     Mental_Health_Harm |-> 25, Erosion_Voice_Autonomy |-> 20]

RECURSIVE SeqSum(_)
SeqSum(xs) == IF xs = <<>> THEN 0 ELSE Head(xs) + SeqSum(Tail(xs))

SeqMin(xs) == CHOOSE m \in {xs[i] : i \in DOMAIN xs} : \A i \in DOMAIN xs : m <= xs[i]
SeqMax(xs) == CHOOSE m \in {xs[i] : i \in DOMAIN xs} : \A i \in DOMAIN xs : m >= xs[i]

\* the k-th smallest element of a non-empty sequence
KthSmallest(xs, k) ==
    CHOOSE v \in {xs[i] : i \in DOMAIN xs} :
        /\ Cardinality({i \in DOMAIN xs : xs[i] < v}) < k
        /\ Cardinality({i \in DOMAIN xs : xs[i] <= v}) >= k

\* np.percentile(xs, q) by linear interpolation, times 100: the position is
\* (n - 1) * q / 100 from the smallest element
Percentile100(xs, q) ==
    LET pos == (Len(xs) - 1) * q
        lo == pos \div 100
        frac == pos % 100
        a == KthSmallest(xs, lo + 1)
        b == IF frac = 0 THEN a ELSE KthSmallest(xs, lo + 2)
    IN 100 * a + frac * (b - a)

\* mean, std, min, max, p25, p75 of a non-empty sequence; var_n2 is the
\* variance times n * n, of which std is positive exactly when it is
Stats(xs) ==
    [sum |-> SeqSum(xs),
     n |-> Len(xs),
     var_n2 |-> Len(xs) * SeqSum([i \in DOMAIN xs |-> xs[i] * xs[i]])
                - SeqSum(xs) * SeqSum(xs),
     min |-> SeqMin(xs),
     max |-> SeqMax(xs),
     p25_100 |-> Percentile100(xs, 25),
     p75_100 |-> Percentile100(xs, 75)]

\* the number of elements of a sequence equal to v
CountOf(xs, v) == Cardinality({i \in DOMAIN xs : xs[i] = v})

\* aggregate_individual_predictions(individual_predictions), for a non-empty
\* list; category_scores is read under the key str(category_id) or category_id
aggregate_individual_predictions(individual_predictions) ==
    LET hseg_scores ==
            [i \in DOMAIN individual_predictions |->
                Get(individual_predictions[i], "overall_hseg_score", 1400)]
        risk_tiers ==
            [i \in DOMAIN individual_predictions |->
                Get(individual_predictions[i], "overall_risk_tier", "Mixed")]
        scores_of(category_id) ==
            [i \in DOMAIN individual_predictions |->
                Get(Get(individual_predictions[i], "category_scores", <<>>),
                    category_id, 250)]
        tiers == {risk_tiers[i] : i \in DOMAIN risk_tiers}
        tier_counts == [tier \in tiers |-> CountOf(risk_tiers, tier)]
    IN [sample_size |-> Len(individual_predictions),
        overall |-> Stats(hseg_scores),
        categories |->
            [category_id \in Cats |->
                [stats |-> Stats(scores_of(category_id)),
                 risk_count |->
                     Cardinality({i \in DOMAIN individual_predictions :
                                     scores_of(category_id)[i] <= 250})]],
        risk_distribution |-> tier_counts,
        crisis_count |-> Get(tier_counts, "Crisis", 0),
        at_risk_count |-> Get(tier_counts, "At_Risk", 0),
        safe_count |-> Get(tier_counts, "Safe", 0) + Get(tier_counts, "Thriving", 0)]

\* denominator of an urgency score for a sample of n
UrgencyDen(n) == 42000 * n

\* a faulty variant: the category weight does not enter the score
UrgencyScoreUnweighted(risk_count, score_sum, weight, n) ==
    16800 * risk_count + 6 * (2800 * n - score_sum)

\* a faulty variant: the mean score does not enter the score
UrgencyScoreWithoutMean(risk_count, score_sum, weight, n) ==
    16800 * risk_count + 280 * weight * n

\* urgency_score = risk_rate * 0.4 + (1 - mean_score/28.0) * 0.4
\*                 + weight/3.0 * 0.2, a numerator over UrgencyDen(n)
UrgencyScore(risk_count, score_sum, weight, n) ==
    16800 * risk_count + 6 * (2800 * n - score_sum) + 280 * weight * n

UrgencyTier(urgency_score, den) ==
    IF MoreThanTenths(urgency_score, den, 7) THEN "Immediate"
    ELSE IF MoreThanTenths(urgency_score, den, 5) THEN "High"
    ELSE IF MoreThanTenths(urgency_score, den, 3) THEN "Medium"
    ELSE "Low"

\* the intervention text, effort and impact by risk_rate band
InterventionStrategy(risk_count, n) ==
    IF MoreThanTenths(risk_count, n, 5)
    THEN [intervention |-> "Immediate systemic intervention required",
          estimated_effort |-> "High", expected_impact |-> "High"]
    ELSE IF MoreThanTenths(risk_count, n, 3)
    THEN [intervention |-> "Targeted improvements needed",
          estimated_effort |-> "Medium", expected_impact |-> "High"]
    ELSE [intervention |-> "Monitor and maintain current practices",
          estimated_effort |-> "Low", expected_impact |-> "Medium"]

\* one entry of priorities, before the sort
Priority(aggregated_stats, cat_id) ==
    LET cat == aggregated_stats.categories[cat_id]
        n == aggregated_stats.sample_size
        cat_name == org_category_names[cat_id]
        weight == Get(org_category_weights, cat_name, 20)
        urgency_score == UrgencyScore(cat.risk_count, cat.stats.sum, weight, n)
        strategy == InterventionStrategy(cat.risk_count, n)
    IN [category |-> cat_name,
        category_id |-> cat_id,
        risk_count |-> cat.risk_count,
        score_sum |-> cat.stats.sum,
        urgency |-> UrgencyTier(urgency_score, UrgencyDen(n)),
        urgency_score |-> urgency_score,
        intervention |-> strategy.intervention,
        estimated_effort |-> strategy.estimated_effort,
        expected_impact |-> strategy.expected_impact]

\* a variant that leaves the entries in category order
UnsortedPriorities(entries, S) == [i \in 1..Cardinality(S) |-> entries[i]]

\* priorities.sort(key=urgency_score, reverse=True): descending, entries of
\* equal score in their order of insertion (category order)
RECURSIVE SortByUrgency(_, _)
SortByUrgency(entries, S) ==
    IF S = {} THEN <<>>
    ELSE LET first == CHOOSE c \in S : \A d \in S :
                          \/ entries[c].urgency_score > entries[d].urgency_score
                          \/ /\ entries[c].urgency_score = entries[d].urgency_score
                             /\ c <= d
         IN <<entries[first]>> \o SortByUrgency(entries, S \ {first})

\* calculate_intervention_priorities(aggregated_stats, predicted_outcomes)
calculate_intervention_priorities(aggregated_stats) ==
    SortByUrgency([cat_id \in Cats |-> Priority(aggregated_stats, cat_id)], Cats)

\* round(num / den, k) in units of 1/unit of the unit of num / den, den > 0
RoundRat(num, den, unit) == (2 * unit * num + den) \div (2 * den)

\* the heuristic fallback for the risk tier; the mean is score_sum / n hundredths
HeuristicTier(crisis_count, at_risk_count, score_sum, n) ==
    IF MoreThanTenths(crisis_count, n, 3) \/ score_sum <= 1200 * n THEN "Crisis"
    ELSE IF \/ 100 * crisis_count > 15 * n
            \/ MoreThanTenths(at_risk_count, n, 4)
            \/ score_sum <= 1600 * n THEN "At_Risk"
    ELSE IF score_sum <= 2000 * n THEN "Mixed"
    ELSE IF score_sum <= 2400 * n THEN "Safe"
    ELSE "Thriving"

\* min(0.95, 0.5 + (sample_size - 5) * 0.02), rounded to 3 places: thousandths
ConfidenceLevel(sample_size) == Min(950, 500 + (sample_size - 5) * 20)

\* base_turnover + score_factor * 0.35, in thousandths after round(v, 3)
FallbackTurnover(score_sum, n) ==
    RoundRat(3300 * n + 7 * Max(0, 1800 * n - score_sum), 22000 * n, 1000)

\* min(0.8, crisis_rate * 2.0 + (1 - overall_hseg_score/28.0) * 0.3), thousandths
LegalRisk(crisis_count, score_sum, n) ==
    RoundRat(Min(22400 * n, 56000 * crisis_count + 3 * (2800 * n - score_sum)),
             28000 * n, 1000)

\* (overall_hseg_score - 14.0) / 14.0 * 0.4, thousandths
ProductivityImpact(score_sum, n) == RoundRat(score_sum - 1400 * n, 3500 * n, 1000)

\* max(0.1, min(1.0, overall_hseg_score / 25.0)), thousandths
EngagementScore(score_sum, n) ==
    RoundRat(Max(250 * n, Min(2500 * n, score_sum)), 2500 * n, 1000)

\* domain and baseline (hundredths) of an organization_info that may be None
\* or lack the key
DomainOf(organization_info) ==
    IF organization_info = None THEN "Business"
    ELSE Get(organization_info, "domain", "Business")

BaselineOf(domain) == Get(industry_baselines, domain, 1800)

\* a faulty variant: no lower limit on the percentile
BenchmarkNumNoFloor(score_sum, baseline, n) ==
    Min(95 * 10 * n, score_sum - n * baseline + 500 * n)

\* max(5, min(95, ((overall_hseg_score - baseline + 5) / 10) * 100)), as a
\* numerator over 10 * n: the percentile before rounding
BenchmarkNum(score_sum, baseline, n) ==
    Max(5 * 10 * n, Min(95 * 10 * n, score_sum - n * baseline + 500 * n))

\* round(benchmark_percentile, 1), in tenths
BenchmarkPercentile(score_sum, baseline, n) ==
    RoundRat(BenchmarkNum(score_sum, baseline, n), 10 * n, 10)

\* round(overall_hseg_score - baseline, 2), in hundredths
IndustryComparison(score_sum, baseline, n) == RoundRat(score_sum - n * baseline, n, 1)

\* OrganizationalRiskAggregator.predict_organizational_risk. org_model is the
\* aggregator's state; req.ml holds what the loaded models answer: whether
\* building the features or a model raises, the tier, the turnover (thousandths)
predict_organizational_risk(org_model, req) ==
    IF Len(req.individual_predictions) < 5
    THEN [kind |-> "raise",
          error |-> "Minimum 5 individual predictions required for organizational assessment"]
    ELSE
    LET aggregated_stats == aggregate_individual_predictions(req.individual_predictions)
        score_sum == aggregated_stats.overall.sum
        n == aggregated_stats.sample_size
        ml_tier_set == org_model.has_risk_model /\ ~req.ml.features_raise
                       /\ ~req.ml.risk_raises
        ml_turnover_set == org_model.has_turnover_model /\ ~req.ml.features_raise
                           /\ (org_model.has_risk_model => ~req.ml.risk_raises)
                           /\ ~req.ml.turnover_raises
        crisis_count == aggregated_stats.crisis_count
        overall_risk_tier ==
            IF ml_tier_set THEN req.ml.tier
            ELSE HeuristicTier(crisis_count, aggregated_stats.at_risk_count, score_sum, n)
        predicted_turnover_rate ==
            IF ml_turnover_set THEN req.ml.turnover ELSE FallbackTurnover(score_sum, n)
        domain == DomainOf(req.organization_info)
        baseline == BaselineOf(domain)
    IN \* crisis_rate is bound in the heuristic branch alone
       IF ml_tier_set
       THEN [kind |-> "raise", error |-> "local variable 'crisis_rate' referenced before assignment"]
       ELSE
       [kind |-> "ok",
        overall_hseg_score |-> RoundRat(score_sum, n, 1),
        overall_risk_tier |-> overall_risk_tier,
        sample_size |-> n,
        confidence_level |-> ConfidenceLevel(n),
        statistical_significance |-> n >= 30 /\ aggregated_stats.overall.var_n2 > 0,
        category_scores |->
            [c \in Cats |-> RoundRat(aggregated_stats.categories[c].stats.sum, n, 1)],
        predicted_outcomes |->
            [predicted_turnover_rate |-> predicted_turnover_rate,
             predicted_legal_risk |-> LegalRisk(crisis_count, score_sum, n),
             predicted_productivity_impact |-> ProductivityImpact(score_sum, n),
             predicted_engagement_score |-> EngagementScore(score_sum, n),
             predicted_retention_rate |-> 1000 - predicted_turnover_rate],
        intervention_priorities |->
            Take(calculate_intervention_priorities(aggregated_stats), 3),
        benchmark_percentile |-> BenchmarkPercentile(score_sum, baseline, n),
        industry_comparison |-> IndustryComparison(score_sum, baseline, n),
        aggregated_statistics |-> aggregated_stats]

(***************************************************************************)
(* Inputs                                                                  *)
(***************************************************************************)
MaxRawLevel == 3

\* predictor outputs on a grid from 1.0 up; a level above 4.0 is clamped
RawGrid == {1000 * (i + 1) : i \in 0..MaxRawLevel}

RawVector(a, b, c, d, e, f) ==
    [x \in Cats |-> CASE x = 1 -> a [] x = 2 -> b [] x = 3 -> c
                      [] x = 4 -> d [] x = 5 -> e [] x = 6 -> f]

\* predictor outputs off the grid: below 1.0 and above 4.0, between two
\* hundredths, on either side of the overall thresholds 12, 16, 20 and 24
SampleVectors ==
    { RawVector(250, 250, 250, 250, 250, 250),
      RawVector(4700, 4700, 4700, 4700, 4700, 4700),
      RawVector(1496, 2499, 2996, 3499, 1004, 2504),
      RawVector(1780, 1760, 1560, 1730, 1590, 1820),
      RawVector(1820, 1750, 1640, 1630, 1670, 1760),
      RawVector(2270, 2410, 2330, 2320, 2260, 2140),
      RawVector(2380, 2200, 2240, 2400, 2140, 2270),
      RawVector(2890, 2860, 2900, 2850, 2820, 2830),
      RawVector(2810, 2970, 2760, 2840, 3010, 2730),
      RawVector(3330, 3550, 3510, 3460, 3480, 3290),
      RawVector(3580, 3540, 3350, 3350, 3320, 3410),
      RawVector(1900, 2600, 1900, 2400, 1900, 1900),
      RawVector(1990, 1990, 1500, 1200, 1990, 1100),
      RawVector(4000, 2510, 2510, 1000, 2600, 1000) }

EmptyDict == <<>>

TextAnalysisInputs ==
    { EmptyDict,
      [crisis_language_present |-> TRUE],
      [specific_incident_described |-> TRUE],
      [crisis_language_present |-> TRUE, specific_incident_described |-> TRUE] }

DemographicsInputs ==
    { EmptyDict, [tenure_range |-> "<1_year"], [tenure_range |-> "4-7_years"] }

\* the arguments of IndividualRiskPredictor.predict
Request(id, raises, output, ta, demo) ==
    [op |-> "predict", response_id |-> id, model_raises |-> raises,
     model_output |-> output, text_analysis |-> ta, demographics |-> demo]

NeutralVector == RawVector(2500, 2500, 2500, 2500, 2500, 2500)

SamplePredictRequests ==
    { Request("r1", FALSE, v, ta, demo) :
        v \in SampleVectors, ta \in TextAnalysisInputs, demo \in DemographicsInputs }
    \cup { Request("r1", TRUE, NeutralVector, EmptyDict, EmptyDict) }

PredictRequests ==
    { Request("r1", FALSE, v, EmptyDict, EmptyDict) : v \in [Cats -> RawGrid] }
    \cup SamplePredictRequests

MaxPhrases == 2

Phrases ==
    <<"I want to end my life",
      "I can't go on",
      "My manager SCREAMED at me",
      "bullied, threatened; harassment",
      "excluded: burnout @ work #1",
      "ALWAYS terrible, awful!!!">>

\* the phrases of a choice, joined by single spaces
RECURSIVE JoinPhrases(_, _)
JoinPhrases(choice, i) ==
    IF i > Len(choice) THEN ""
    ELSE (IF i > 1 THEN " " ELSE "") \o Phrases[choice[i]] \o JoinPhrases(choice, i + 1)

\* up to MaxPhrases phrases, and texts that are blank or too short
Texts ==
    { JoinPhrases(choice, 1) :
        choice \in UNION { [1..n -> DOMAIN Phrases] : n \in 0..MaxPhrases } }
    \cup {" ok ", "   "}

NeutralSentiment == [sentiment_score |-> 0, confidence |-> 70]

Sentiments ==
    { [sentiment_score |-> -80, confidence |-> 80],
      [sentiment_score |-> -30, confidence |-> 40],
      [sentiment_score |-> 60, confidence |-> 60] }

NoProbabilities == [cat \in DOMAIN risk_keywords |-> 0]

ProbabilityVectors ==
    { [NoProbabilities EXCEPT !.discrimination = 399],
      [NoProbabilities EXCEPT !.discrimination = 400, !.manipulation = 699],
      [NoProbabilities EXCEPT !.voice_autonomy = 700, !.power_abuse = 1000] }

\* the arguments of TextRiskClassifier.predict_text_risk, with the answers of
\* the sentiment pipeline and of the trained classifier
TextRequest(text, raises, sentiment, probabilities) ==
    [op |-> "predict_text_risk", text |-> text, sentiment_raises |-> raises,
     sentiment |-> sentiment, probabilities |-> probabilities]

\* a classifier without a trained model reads no probabilities
RuleBasedTextRequests ==
    { TextRequest(t, FALSE, sn, NoProbabilities) : t \in Texts, sn \in Sentiments }
    \cup { TextRequest(t, TRUE, NeutralSentiment, NoProbabilities) : t \in Texts }

ModelBasedTextRequests ==
    { TextRequest(t, FALSE, NeutralSentiment, p) : t \in Texts, p \in ProbabilityVectors }
    \cup { TextRequest(t, FALSE, [sentiment_score |-> -80, confidence |-> 80],
                       [NoProbabilities EXCEPT !.discrimination = 399]) : t \in Texts }

\* an assessment as IndividualRiskPredictor.predict returns it
Assessment(v) == predict(TRUE, Request("r1", FALSE, v, EmptyDict, EmptyDict))

\* what a cohort is drawn from: assessments, an error dict, and dicts whose
\* overall score lies 50 points above and below the Business baseline
Profiles ==
    <<Assessment(RawVector(1000, 2500, 2000, 1500, 1000, 2000)),
      Assessment(RawVector(1820, 1750, 1640, 1630, 1670, 1760)),
      Assessment(RawVector(4000, 2510, 2510, 1000, 2600, 1000)),
      Assessment(RawVector(3580, 3540, 3350, 3350, 3320, 3410)),
      [error |-> "failed", response_id |-> "r1"],
      [overall_hseg_score |-> 6800],
      [overall_hseg_score |-> -3200]>>

\* len(individual_predictions) < 5 is refused
MinPredictions == 5

MaxCohort == 5

\* cohorts one short of the gate and longer, up to the order of their members
Cohorts ==
    { [i \in DOMAIN choice |-> Profiles[choice[i]]] :
        choice \in UNION { { c \in [1..n -> DOMAIN Profiles] :
                               \A i \in 1..(n - 1) : c[i] <= c[i + 1] } :
                           n \in (MinPredictions - 1)..MaxCohort } }

OrganizationInfos ==
    { None,
      EmptyDict,
      [org_id |-> "org1", domain |-> "Healthcare"],
      [org_id |-> "org1", domain |-> "University"],
      [org_id |-> "org1", domain |-> "Business"],
      [org_id |-> "org1", domain |-> "Government"] }

\* what the loaded models answer: features_raise is
\* create_organizational_features or the reshape raising
MLAnswer(features_raise, risk_raises, turnover_raises, tier, turnover) ==
    [features_raise |-> features_raise, risk_raises |-> risk_raises,
     turnover_raises |-> turnover_raises, tier |-> tier, turnover |-> turnover]

NoML == MLAnswer(FALSE, FALSE, FALSE, "Mixed", 150)

MLAnswers ==
    { MLAnswer(fr, rr, tr, tier, 120) :
        fr \in BOOLEAN, rr \in BOOLEAN, tr \in BOOLEAN, tier \in {"Crisis", "Thriving"} }

\* the arguments of OrganizationalRiskAggregator.predict_organizational_risk
\* with the answers of the loaded models
OrgRequest(individual_predictions, organization_info, ml) ==
    [op |-> "predict_organizational_risk",
     individual_predictions |-> individual_predictions,
     organization_info |-> organization_info, ml |-> ml]

SampleCohorts ==
    { [i \in 1..n |-> Profiles[k]] : n \in {MinPredictions - 1, MinPredictions}, k \in {2, 4} }

HeuristicOrgRequests ==
    { OrgRequest(cohort, info, NoML) : cohort \in Cohorts, info \in OrganizationInfos }

MLOrgRequests ==
    { OrgRequest(cohort, [org_id |-> "org1", domain |-> "Business"], ml) :
        cohort \in SampleCohorts, ml \in MLAnswers }

(***************************************************************************)
(* State                                                                   *)
(***************************************************************************)
NoFiles == [individual |-> "absent", text |-> "absent", organizational |-> "absent"]

\* OrganizationalRiskAggregator.__init__
NewOrgModel == [is_loaded |-> FALSE, has_risk_model |-> FALSE, has_turnover_model |-> FALSE]

\* HSEGMLPipeline.__init__, with the models it constructs
NewPipeline ==
    [models_loaded |-> FALSE,
     pipeline_ready |-> FALSE,
     individual_model |-> [is_trained |-> FALSE],
     text_classifier |-> [is_trained |-> FALSE, has_model |-> FALSE],
     org_model |-> NewOrgModel,
     prediction_stats |-> [total_predictions |-> 0,
                           successful_predictions |-> 0,
                           failed_predictions |-> 0]]

\* IndividualRiskPredictor.train or load_model, TextRiskClassifier.train or
\* load_model have run
TrainedPipeline ==
    [NewPipeline EXCEPT !.individual_model = [is_trained |-> TRUE],
                        !.text_classifier = [is_trained |-> TRUE, has_model |-> TRUE]]

\* OrganizationalRiskAggregator.load_model has read a dict of models
LoadedOrgModels ==
    { [is_loaded |-> TRUE, has_risk_model |-> r, has_turnover_model |-> t] :
        r \in BOOLEAN, t \in BOOLEAN }

LoadedPipelines == { [TrainedPipeline EXCEPT !.org_model = m] : m \in LoadedOrgModels }

(***************************************************************************)
(* app/core/ml_pipeline.py                                                 *)
(***************************************************************************)
\* d with d[k] = v, as d[k] = v on a dict
With(d, k, v) == [f \in DOMAIN d \cup {k} |-> IF f = k THEN v ELSE d[f]]

\* ' '.join([str(text) for text in text_responses.values() if text])
RECURSIVE JoinTexts(_)
JoinTexts(texts) ==
    IF texts = <<>> THEN ""
    ELSE LET rest == JoinTexts(Tail(texts))
         IN IF Head(texts) = "" THEN rest
            ELSE IF rest = "" THEN Head(texts)
            ELSE Head(texts) \o " " \o rest

\* the text analysis of predict_individual_risk: the text classifier's answer
\* on the joined text responses, or {} when there is no text
AnalyzeTextResponses(p, response_data) ==
    LET text_responses == Get(response_data, "text_responses", <<>>)
        combined_text == JoinTexts(text_responses)
    IN IF text_responses # <<>> /\ Strip(combined_text) # ""
       THEN predict_text_risk(p.text_classifier,
                              TextRequest(combined_text, response_data.sentiment_raises,
                                          response_data.sentiment,
                                          response_data.probabilities))
       ELSE EmptyDict

\* the end of predict_individual_risk: the combined prediction and the
\* statistics, or the except branch when the model raised
CombinePrediction(p, response_data, text_analysis, individual_prediction) ==
    IF individual_prediction.kind = "raise"
    THEN [pipeline |-> [p EXCEPT !.prediction_stats.failed_predictions = @ + 1],
          result |-> [kind |-> "error", error |-> individual_prediction.error,
                      response_id |-> Get(response_data, "response_id", "unknown")]]
    ELSE [pipeline |-> [p EXCEPT !.prediction_stats.total_predictions = @ + 1,
                                 !.prediction_stats.successful_predictions = @ + 1],
          result |-> With(individual_prediction, "text_risk_analysis", text_analysis)]

PredictWithTextAnalysis(p, response_data, text_analysis) ==
    CombinePrediction(p, response_data, text_analysis,
        predict(p.individual_model.is_trained,
                With(response_data, "text_analysis", text_analysis)))

\* HSEGMLPipeline.predict_individual_risk(response_data): the pipeline after
\* the call and what the call returns
predict_individual_risk(p, response_data) ==
    PredictWithTextAnalysis(p, response_data, AnalyzeTextResponses(p, response_data))

\* a membership test that never finds 'error'
NeverHasError(d) == FALSE

\* 'error' in d, for what predict_individual_risk and the wrapper of the
\* organizational prediction return
HasError(d) == d.kind = "error"

\* HSEGMLPipeline.predict_organizational_risk(org_id, individual_predictions,
\* organization_info): the aggregator's answer, or an error dict when it raises
pipeline_predict_organizational_risk(p, org_id, individual_predictions, organization_info, ml) ==
    LET org_prediction ==
            predict_organizational_risk(p.org_model,
                OrgRequest(individual_predictions, organization_info, ml))
    IN IF org_prediction.kind = "raise"
       THEN [kind |-> "error", error |-> org_prediction.error, organization_id |-> org_id]
       ELSE org_prediction

\* database_config.py: SessionLocal = sessionmaker(...) makes sqlalchemy.orm
\* Session objects, which have no __aenter__
SessionHasAsyncContext == FALSE

\* the names ml_pipeline.py imports from app.models.database_models
ImportedModels ==
    {"Organization", "SurveyResponse", "OrganizationRiskProfile", "AIRiskScore",
     "ModelPrediction", "HSEGCategory", "DatabaseUtils"}

\* _store_individual_prediction(response_id, prediction, db): six AIRiskScore
\* rows and a ModelPrediction row, committed together; a failure is rolled back
store_individual_prediction(database, response_id, individual_pred, commit_fails) ==
    IF commit_fails THEN database
    ELSE [database EXCEPT
            !.ai_risk_scores = @ \cup {<<response_id, c>> : c \in Cats},
            !.model_predictions = @ + 1]

\* _store_organizational_prediction(org_id, campaign_id, prediction, db): the
\* profile is read from keys the prediction does not have; merge on the
\* primary key (org_id, campaign_id)
store_organizational_prediction(database, org_id, campaign_id, org_prediction, commit_fails) ==
    IF commit_fails THEN database
    ELSE LET risk_profile ==
                 [overall_hseg_score |-> 0,
                  overall_risk_tier |-> "Mixed",
                  sample_size |-> 0,
                  confidence_level |-> 800,
                  statistical_significance |-> TRUE,
                  benchmark_percentile |-> 500,
                  industry_comparison |-> 0]
         IN [database EXCEPT
                !.organization_risk_profiles =
                    [key \in DOMAIN @ \cup {<<org_id, campaign_id>>} |->
                        IF key = <<org_id, campaign_id>> THEN risk_profile ELSE @[key]],
                !.model_predictions = @ + 1]

\* one turn of the loop of process_survey_campaign: a prediction without
\* 'error' is appended to the list for aggregation and stored. run.events
\* lists, in the order of execution, the predictions that have returned and
\* the start of the organizational prediction.
AfterIndividualPrediction(run, response_id, out, commit_fails) ==
    IF ~HasError(out.result)
    THEN [pipeline |-> out.pipeline,
          db |-> store_individual_prediction(run.db, response_id, out.result, commit_fails),
          individual_predictions |-> Append(run.individual_predictions, out.result),
          events |-> Append(run.events, <<"individual", response_id>>)]
    ELSE [run EXCEPT !.pipeline = out.pipeline,
                     !.events = Append(@, <<"individual", response_id>>)]

\* the loop of process_survey_campaign over responses[i..]: the pipeline, the
\* database and the list for aggregation after it
RECURSIVE ProcessResponses(_, _, _, _)
ProcessResponses(run, responses, i, commit_fails) ==
    IF i > Len(responses) THEN run
    ELSE ProcessResponses(
             AfterIndividualPrediction(run, responses[i].response_id,
                 predict_individual_risk(run.pipeline, responses[i]), commit_fails),
             responses, i + 1, commit_fails)

CampaignError(p, database, campaign_id, error) ==
    [pipeline |-> p, db |-> database,
     result |-> [kind |-> "error", error |-> error, campaign_id |-> campaign_id]]

\* the end of process_survey_campaign: the organizational prediction is
\* stored unless it is an error dict, and the result is compiled
CompileResult(campaign_id, campaign, run, org_prediction, commit_fails) ==
    [pipeline |-> run.pipeline,
     db |-> IF ~HasError(org_prediction)
            THEN store_organizational_prediction(run.db, campaign.org_id, campaign_id,
                                                 org_prediction, commit_fails)
            ELSE run.db,
     result |-> [kind |-> "ok",
                 campaign_id |-> campaign_id,
                 organization_info |-> [org_id |-> campaign.org_id,
                                        domain |-> campaign.domain],
                 individual_predictions_count |-> Len(run.individual_predictions),
                 individual_predictions |-> run.individual_predictions,
                 events |-> run.events,
                 organizational_prediction |-> org_prediction,
                 processing_summary |->
                     [total_responses |-> Len(campaign.responses),
                      successful_predictions |-> Len(run.individual_predictions)]]]

\* process_survey_campaign after the loop
AggregateCampaign(campaign_id, campaign, run, ml, commit_fails) ==
    CompileResult(campaign_id, campaign,
        [run EXCEPT !.events = Append(@, <<"organizational", campaign.org_id>>)],
        pipeline_predict_organizational_risk(run.pipeline, campaign.org_id,
            run.individual_predictions,
            [org_id |-> campaign.org_id, domain |-> campaign.domain], ml),
        commit_fails)

\* a body that starts the organizational prediction when all responses but
\* the last have been predicted, and predicts the last one afterwards
ProcessCampaignAggregatingEarly(p, database, campaign_id, campaign, ml, commit_fails) ==
    IF Len(campaign.responses) < 5
    THEN CampaignError(p, database, campaign_id, "Insufficient responses")
    ELSE LET early == AggregateCampaign(campaign_id, campaign,
                          ProcessResponses([pipeline |-> p, db |-> database,
                                            individual_predictions |-> <<>>,
                                            events |-> <<>>],
                                           Take(campaign.responses,
                                                Len(campaign.responses) - 1),
                                           1, commit_fails),
                          ml, commit_fails)
             late == ProcessResponses([pipeline |-> early.pipeline, db |-> early.db,
                                       individual_predictions |->
                                           early.result.individual_predictions,
                                       events |-> early.result.events],
                                      campaign.responses, Len(campaign.responses),
                                      commit_fails)
         IN [pipeline |-> late.pipeline, db |-> late.db,
             result |-> [early.result EXCEPT !.events = late.events]]

\* process_survey_campaign once the campaign was read
ProcessCampaign(p, database, campaign_id, campaign, ml, commit_fails) ==
    IF Len(campaign.responses) < 5
    THEN CampaignError(p, database, campaign_id, "Insufficient responses")
    ELSE AggregateCampaign(campaign_id, campaign,
             ProcessResponses([pipeline |-> p, db |-> database,
                               individual_predictions |-> <<>>, events |-> <<>>],
                              campaign.responses, 1, commit_fails),
             ml, commit_fails)

\* HSEGMLPipeline.process_survey_campaign(campaign_id): the pipeline, the
\* database and the returned dict. Every exception of the body is caught and
\* turned into an error dict.
process_survey_campaign(p, database, campaign_id, ml, commit_fails) ==
    IF ~SessionHasAsyncContext
    THEN CampaignError(p, database, campaign_id,
             "'Session' object does not support the asynchronous context manager protocol")
    ELSE IF "SurveyCampaign" \notin ImportedModels
    THEN CampaignError(p, database, campaign_id, "name 'SurveyCampaign' is not defined")
    ELSE IF campaign_id \notin DOMAIN database.campaigns
    THEN CampaignError(p, database, campaign_id, "Campaign not found")
    ELSE ProcessCampaign(p, database, campaign_id, database.campaigns[campaign_id],
                         ml, commit_fails)

\* _load_existing_models(): the pipeline after loading what the files allow,
\* and whether at least 2 models were loaded. An unreadable individual model
\* file makes the whole load fail.
load_existing_models(p, files) ==
    IF files.individual = "corrupt" THEN [pipeline |-> p, loaded |-> FALSE]
    ELSE
    LET individual_model ==
            IF files.individual = "absent" THEN p.individual_model
            ELSE [is_trained |-> files.individual = "trained"]
        text_classifier ==
            CASE files.text = "ok" -> [is_trained |-> TRUE, has_model |-> TRUE]
              [] files.text = "mismatched" -> [p.text_classifier EXCEPT !.has_model = TRUE]
              [] OTHER -> p.text_classifier
        org_model ==
            CASE files.organizational = "models" ->
                     [is_loaded |-> TRUE, has_risk_model |-> TRUE, has_turnover_model |-> TRUE]
              [] files.organizational = "plain" -> [p.org_model EXCEPT !.is_loaded = TRUE]
              [] files.organizational = "corrupt" -> [p.org_model EXCEPT !.is_loaded = FALSE]
              [] OTHER -> p.org_model
        models_loaded ==
            (IF files.individual # "absent" THEN 1 ELSE 0)
            + (IF files.text # "absent" THEN 1 ELSE 0)
            + (IF files.organizational \in {"models", "plain"} THEN 1 ELSE 0)
    IN [pipeline |-> [p EXCEPT !.individual_model = individual_model,
                               !.text_classifier = text_classifier,
                               !.org_model = org_model],
        loaded |-> models_loaded >= 2]

\* _train_all_models(): training is "ok", or raises in the individual model's
\* training, or after it in the text classifier's
train_all_models(p, files, training) ==
    IF training = "individual_fails" THEN [pipeline |-> p, disk |-> files, raised |-> TRUE]
    ELSE
    LET trained == [p EXCEPT !.individual_model = [is_trained |-> TRUE]]
        saved == [files EXCEPT !.individual = "trained"]
    IN IF training = "text_fails" THEN [pipeline |-> trained, disk |-> saved, raised |-> TRUE]
       ELSE [pipeline |-> [trained EXCEPT
                              !.text_classifier = [is_trained |-> TRUE, has_model |-> TRUE]],
             disk |-> [saved EXCEPT !.text = "ok"],
             raised |-> FALSE]

\* initialize_pipeline(train_if_missing)
initialize_pipeline(p, files, train_if_missing, training) ==
    LET load == load_existing_models(p, files)
    IN IF ~load.loaded /\ train_if_missing
       THEN LET train == train_all_models(load.pipeline, files, training)
            IN IF train.raised THEN [pipeline |-> train.pipeline, disk |-> train.disk]
               ELSE [pipeline |-> [train.pipeline EXCEPT !.models_loaded = TRUE,
                                                         !.pipeline_ready = TRUE],
                     disk |-> train.disk]
       ELSE [pipeline |-> [load.pipeline EXCEPT !.models_loaded = load.loaded,
                                                !.pipeline_ready = load.loaded],
             disk |-> files]

\* reload_models()
reload_models(p, files) ==
    LET load == load_existing_models(p, files)
    IN [load.pipeline EXCEPT !.models_loaded = load.loaded, !.pipeline_ready = load.loaded]

(***************************************************************************)
(* The components on their own: a model that was trained or loaded, or a   *)
(* fresh one, is handed one call and answers it.                           *)
(***************************************************************************)
NoDatabase ==
    [campaigns |-> <<>>, ai_risk_scores |-> {}, model_predictions |-> 0,
     organization_risk_profiles |-> <<>>]

\* the calls a component in the given state is handed
RequestsOf(p) ==
    IF p = NewPipeline
    THEN SamplePredictRequests \cup RuleBasedTextRequests \cup HeuristicOrgRequests
    ELSE IF p = TrainedPipeline
    THEN PredictRequests \cup ModelBasedTextRequests
    ELSE MLOrgRequests

InitComponents ==
    /\ pipeline \in {NewPipeline, TrainedPipeline} \cup LoadedPipelines
    /\ request \in RequestsOf(pipeline)
    /\ prediction = None
    /\ text_result = None
    /\ org_result = None
    /\ campaign_result = None
    /\ disk = NoFiles
    /\ db = NoDatabase
    /\ calls = 0
    /\ health_status = None

Predict ==
    /\ request.op = "predict"
    /\ prediction = None
    /\ prediction' = predict(pipeline.individual_model.is_trained, request)
    /\ UNCHANGED <<request, text_result, org_result, pipeline, campaign_result,
                   disk, db, calls, health_status>>

PredictTextRisk ==
    /\ request.op = "predict_text_risk"
    /\ text_result = None
    /\ text_result' = predict_text_risk(pipeline.text_classifier, request)
    /\ UNCHANGED <<request, prediction, org_result, pipeline, campaign_result,
                   disk, db, calls, health_status>>

PredictOrganizationalRisk ==
    /\ request.op = "predict_organizational_risk"
    /\ org_result = None
    /\ org_result' = predict_organizational_risk(pipeline.org_model, request)
    /\ UNCHANGED <<request, prediction, text_result, pipeline, campaign_result,
                   disk, db, calls, health_status>>

NextComponents == Predict \/ PredictTextRisk \/ PredictOrganizationalRisk

SpecComponents == InitComponents /\ [][NextComponents]_vars

(***************************************************************************)
(* The pipeline: one HSEGMLPipeline instance, the model files and the      *)
(* database, and the calls made on the instance one after the other.       *)
(***************************************************************************)
MaxCalls == 3

Disks ==
    { NoFiles,
      [individual |-> "trained", text |-> "ok", organizational |-> "models"],
      [individual |-> "trained", text |-> "absent", organizational |-> "plain"],
      [individual |-> "untrained", text |-> "mismatched", organizational |-> "absent"],
      [individual |-> "corrupt", text |-> "ok", organizational |-> "models"],
      [individual |-> "absent", text |-> "ok", organizational |-> "models"],
      [individual |-> "absent", text |-> "unreadable", organizational |-> "corrupt"] }

\* the response data of one survey response, with what the models answer on it
SurveyResponseData(id, texts, raises, output) ==
    [op |-> "predict_individual_risk", response_id |-> id, text_responses |-> texts,
     model_raises |-> raises, model_output |-> output, demographics |-> EmptyDict,
     sentiment_raises |-> FALSE, sentiment |-> NeutralSentiment,
     probabilities |-> [NoProbabilities EXCEPT !.discrimination = 399]]

CampaignResponses ==
    <<SurveyResponseData("r1", <<>>, FALSE, RawVector(1000, 2500, 2000, 1500, 1000, 2000)),
      SurveyResponseData("r2", <<"I want to end my life", "">>, FALSE,
                         RawVector(1820, 1750, 1640, 1630, 1670, 1760)),
      SurveyResponseData("r3", <<"">>, TRUE, NeutralVector),
      SurveyResponseData("r4", <<"I was bullied, threatened; harassment">>, FALSE,
                         RawVector(3580, 3540, 3350, 3350, 3320, 3410)),
      SurveyResponseData("r5", <<" ", "ok">>, FALSE, NeutralVector)>>

\* c1 has a response whose prediction fails, c2 has 4 responses, and the 5
\* responses of c3 all yield a prediction from a trained model
Campaigns ==
    [c1 |-> [org_id |-> "org1", domain |-> "Healthcare", responses |-> CampaignResponses],
     c2 |-> [org_id |-> "org2", domain |-> "Business",
             responses |-> Take(CampaignResponses, 4)],
     c3 |-> [org_id |-> "org1", domain |-> "University",
             responses |-> [CampaignResponses EXCEPT
                               ![3] = SurveyResponseData("r6", <<>>, FALSE, NeutralVector)]]]

CampaignIds == {"c1", "c2", "c3", "c9"}

InitialDatabase == [NoDatabase EXCEPT !.campaigns = Campaigns]

Init ==
    /\ pipeline = NewPipeline
    /\ disk \in Disks
    /\ db = InitialDatabase
    /\ request = None
    /\ prediction = None
    /\ text_result = None
    /\ org_result = None
    /\ campaign_result = None
    /\ calls = 0
    /\ health_status = None

InitializePipeline ==
    /\ calls < MaxCalls
    /\ \E train_if_missing \in BOOLEAN, training \in {"ok", "individual_fails", "text_fails"} :
         \E out \in {initialize_pipeline(pipeline, disk, train_if_missing, training)} :
            /\ pipeline' = out.pipeline
            /\ disk' = out.disk
    /\ calls' = calls + 1
    /\ UNCHANGED <<request, prediction, text_result, org_result, campaign_result, db, health_status>>

ReloadModels ==
    /\ calls < MaxCalls
    /\ pipeline' = reload_models(pipeline, disk)
    /\ calls' = calls + 1
    /\ UNCHANGED <<request, prediction, text_result, org_result, campaign_result, disk, db, health_status>>

\* the responses submitted one by one: those of the campaigns and one whose
\* text holds a crisis phrase and names an incident
SubmittedResponses ==
    { CampaignResponses[i] : i \in DOMAIN CampaignResponses }
    \cup { SurveyResponseData("r7", <<"My manager SCREAMED at me">>, FALSE,
                              RawVector(3580, 3540, 3350, 3350, 3320, 3410)) }

\* what the text classifier, in each of its states, answers for each submitted
\* response; the analysis depends on nothing else and is computed once
TextAnalyses ==
    { <<tc, rd, AnalyzeTextResponses([text_classifier |-> tc], rd)>> :
        tc \in [is_trained : BOOLEAN, has_model : BOOLEAN], rd \in SubmittedResponses }

\* AnalyzeTextResponses(p, response_data), read from TextAnalyses
AnalyzedTextResponses(p, response_data) ==
    (CHOOSE t \in TextAnalyses : t[1] = p.text_classifier /\ t[2] = response_data)[3]

\* predict_individual_risk(pipeline, response_data) for a submitted response
PredictIndividualRisk ==
    /\ calls < MaxCalls
    /\ \E response_data \in SubmittedResponses :
         \E out \in {PredictWithTextAnalysis(pipeline, response_data,
                          AnalyzedTextResponses(pipeline, response_data))} :
            /\ request' = response_data
            /\ pipeline' = out.pipeline
            /\ prediction' = out.result
    /\ calls' = calls + 1
    /\ UNCHANGED <<text_result, org_result, campaign_result, disk, db, health_status>>

\* what predict_organizational_risk of the pipeline answers for org1, for each
\* state of the aggregator, sample cohort and answer of the ML models; the
\* answer depends on nothing else and is computed once
OrganizationalPredictions ==
    { <<om, cohort, ml,
        pipeline_predict_organizational_risk([org_model |-> om], "org1", cohort,
            [org_id |-> "org1", domain |-> "Business"], ml)>> :
        om \in [is_loaded : BOOLEAN, has_risk_model : BOOLEAN, has_turnover_model : BOOLEAN],
        cohort \in SampleCohorts,
        ml \in {NoML, MLAnswer(FALSE, FALSE, FALSE, "Crisis", 120)} }

\* pipeline_predict_organizational_risk(pipeline, "org1", cohort, info, ml) for
\* a sample cohort, read from OrganizationalPredictions
PipelinePredictOrganizationalRisk ==
    /\ calls < MaxCalls
    /\ \E t \in OrganizationalPredictions :
         /\ t[1] = pipeline.org_model
         /\ request' = OrgRequest(t[2], [org_id |-> "org1", domain |-> "Business"], t[3])
         /\ org_result' = t[4]
    /\ calls' = calls + 1
    /\ UNCHANGED <<prediction, text_result, pipeline, campaign_result, disk, db, health_status>>

ProcessSurveyCampaign ==
    /\ calls < MaxCalls
    /\ \E campaign_id \in CampaignIds, commit_fails \in BOOLEAN :
         \E out \in {process_survey_campaign(pipeline, db, campaign_id, NoML, commit_fails)} :
            /\ request' = [op |-> "process_survey_campaign", campaign_id |-> campaign_id]
            /\ pipeline' = out.pipeline
            /\ db' = out.db
            /\ campaign_result' = out.result
    /\ calls' = calls + 1
    /\ UNCHANGED <<prediction, text_result, org_result, disk, health_status>>

\* create_sample_response_data(): no text_responses; what the six models
\* answer on it is the neutral vector
SampleResponseData == SurveyResponseData("test_001", <<>>, FALSE, NeutralVector)

\* HSEGMLPipeline.get_pipeline_status()
get_pipeline_status(p) ==
    [pipeline_ready |-> p.pipeline_ready,
     models_loaded |-> p.models_loaded,
     individual_model_trained |-> p.individual_model.is_trained,
     text_classifier_trained |-> p.text_classifier.is_trained,
     organizational_model_loaded |-> p.org_model.is_loaded,
     performance_stats |-> p.prediction_stats]

\* the status health_check reports for its four checks
HealthStatus(checks) ==
    [status |-> IF ~checks.database THEN "degraded"
                ELSE IF \A k \in DOMAIN checks : checks[k] THEN "healthy"
                ELSE "unhealthy",
     checks |-> checks]

\* HSEGMLPipeline.health_check(): the pipeline after the call and the status
\* returned; db_ok is what db_health_check answers, test the outcome of
\* predict_individual_risk(sample_data)
health_check(p, db_ok, test) ==
    [pipeline |-> test.pipeline,
     result |-> HealthStatus([models_loaded |-> p.models_loaded,
                              pipeline_ready |-> p.pipeline_ready,
                              database |-> db_ok,
                              prediction_capability |-> ~HasError(test.result)])]

HealthCheck ==
    /\ calls < MaxCalls
    /\ \E db_ok \in BOOLEAN :
         \E out \in {health_check(pipeline, db_ok,
                          predict_individual_risk(pipeline, SampleResponseData))} :
            /\ pipeline' = out.pipeline
            /\ health_status' = out.result
    /\ request' = [op |-> "health_check"]
    /\ calls' = calls + 1
    /\ UNCHANGED <<prediction, text_result, org_result, campaign_result, disk, db>>

GetPipelineStatus ==
    /\ calls < MaxCalls
    /\ health_status' = get_pipeline_status(pipeline)
    /\ request' = [op |-> "get_pipeline_status"]
    /\ calls' = calls + 1
    /\ UNCHANGED <<prediction, text_result, org_result, pipeline, campaign_result, disk, db>>

Next ==
    \/ InitializePipeline
    \/ ReloadModels
    \/ PredictIndividualRisk
    \/ PipelinePredictOrganizationalRisk
    \/ ProcessSurveyCampaign
    \/ HealthCheck
    \/ GetPipelineStatus

Spec == Init /\ [][Next]_vars

(***************************************************************************)
(* Properties of the scoring in IndividualRiskPredictor.predict,           *)
(* under SpecComponents                                                    *)
(***************************************************************************)
\* the request is a call of predict that has returned an assessment
Assessed == request.op = "predict" /\ prediction.kind = "ok"

AllOutputsAre(v) == \A c \in Cats : request.model_output[c] = v

\* C1: with weights 3.0/2.5/2.0/3.0/2.5/2.0 and question counts 4/3/3/4/4/4,
\* whose sum of weight x numQuestions is 55.5, six category scores all 1 give
\* an overall score of exactly 7.0 and six scores all 4 give exactly 28.0
C1_Normalisation ==
    /\ [c \in Cats |-> CATEGORY_CONFIG[c].weight] = <<30, 25, 20, 30, 25, 20>>
    /\ [c \in Cats |-> CATEGORY_CONFIG[c].num_questions] = <<4, 3, 3, 4, 4, 4>>
    /\ SumOver([c \in Cats |-> CATEGORY_CONFIG[c].weight
                               * CATEGORY_CONFIG[c].num_questions], Cats) = 555
    /\ (Assessed /\ AllOutputsAre(1000))
         => /\ prediction.overall_score_28 = 7 * Score28Den
            /\ prediction.overall_hseg_score = 700
    /\ (Assessed /\ AllOutputsAre(4000))
         => /\ prediction.overall_score_28 = 28 * Score28Den
            /\ prediction.overall_hseg_score = 2800

\* an assessment of six scores all 1
C1_Witness == Assessed /\ AllOutputsAre(1000) /\ prediction.overall_hseg_score = 700

\* the tier the thresholds 12, 16, 20, 24 give a score, a numerator over
\* Score28Den
StatedTier(score) ==
    IF score <= 12 * Score28Den THEN "Crisis"
    ELSE IF score <= 16 * Score28Den THEN "At Risk"
    ELSE IF score <= 20 * Score28Den THEN "Mixed"
    ELSE IF score <= 24 * Score28Den THEN "Safe"
    ELSE "Thriving"

\* C2: the overall tier is Crisis up to 12, At Risk above 12 up to 16, Mixed
\* above 16 up to 20, Safe above 20 up to 24 and Thriving above 24; a score of
\* 12.0 is Crisis, 12.01 At Risk, 16.0 At Risk and 16.01 Mixed
C2_TierThresholds ==
    /\ Assessed => prediction.overall_risk_tier = StatedTier(prediction.overall_score_28)
    /\ OverallTier(12 * Score28Den) = "Crisis"
    /\ OverallTier((1201 * Score28Den) \div 100) = "At Risk"
    /\ OverallTier(16 * Score28Den) = "At Risk"
    /\ OverallTier((1601 * Score28Den) \div 100) = "Mixed"
    /\ OverallTier(20 * Score28Den) = "Mixed"
    /\ OverallTier(24 * Score28Den) = "Safe"
    /\ OverallTier(24 * Score28Den + 1) = "Thriving"

\* an assessment whose score lies above 12 and below 12.01, tier At Risk
C2_Witness ==
    /\ Assessed
    /\ prediction.overall_score_28 > 12 * Score28Den
    /\ prediction.overall_score_28 < (1201 * Score28Den) \div 100
    /\ prediction.overall_risk_tier = "At Risk"

TierRank(tier) ==
    CASE tier = "Crisis" -> 0 [] tier = "At Risk" -> 1 [] tier = "Mixed" -> 2
      [] tier = "Safe" -> 3 [] tier = "Thriving" -> 4

\* the values a score in [1, 4] is raised to
RaisedFrom(v) == { w \in {v + 1, v + 10, v + 500, v + 1000, 4000} : w > v /\ w <= 4000 }

\* the assessment of the request with the score of category c raised to w
Raised(c, w) == predict(TRUE, [request EXCEPT !.model_output[c] = w])

\* C3: of two vectors of six category scores in [1, 4] that differ in one
\* category, the one with the higher score there has an overall score at
\* least as high, and a tier that is not worse
C3_Monotone ==
    (Assessed /\ \A c \in Cats : request.model_output[c] \in 1000..4000)
        => \A c \in Cats : \A w \in RaisedFrom(request.model_output[c]) :
               /\ Raised(c, w).overall_score_28 >= prediction.overall_score_28
               /\ TierRank(Raised(c, w).overall_risk_tier)
                      >= TierRank(prediction.overall_risk_tier)

\* an assessment that raising one category's score lifts to a better tier
C3_Witness ==
    /\ Assessed
    /\ \A c \in Cats : request.model_output[c] \in 1000..4000
    /\ \E c \in Cats : \E w \in RaisedFrom(request.model_output[c]) :
           /\ Raised(c, w).overall_score_28 > prediction.overall_score_28
           /\ TierRank(Raised(c, w).overall_risk_tier)
                  > TierRank(prediction.overall_risk_tier)

(***************************************************************************)
(* Properties of the organizational aggregator's gate, under               *)
(* SpecComponents                                                          *)
(***************************************************************************)
\* the request is a call of predict_organizational_risk that has ended
Aggregated == request.op = "predict_organizational_risk" /\ org_result # None

\* every member of the cohort is an assessment returned by predict
ValidCohort ==
    \A i \in DOMAIN request.individual_predictions :
        Get(request.individual_predictions[i], "kind", "") = "ok"

\* C4: predict_organizational_risk called with fewer than 5 individual
\* assessments fails with a validation error and returns no assessment; called
\* with exactly 5 valid assessments it returns an assessment of sample_size 5
C4_CohortGate ==
    Aggregated =>
        /\ Len(request.individual_predictions) < 5 => org_result.kind = "raise"
        /\ (Len(request.individual_predictions) = 5 /\ ValidCohort)
             => org_result.kind = "ok" /\ org_result.sample_size = 5

(***************************************************************************)
(* Properties of TextRiskClassifier.predict_text_risk, under               *)
(* SpecComponents                                                          *)
(***************************************************************************)
\* the request is a call of predict_text_risk that has returned
Analyzed == request.op = "predict_text_risk" /\ text_result # None

\* C5: for the text "I want to end my life" the analysis reports crisis
\* language and the overall risk level Critical, whatever the category risks
C5_CrisisPhrase ==
    (Analyzed /\ request.text = "I want to end my life")
        => /\ text_result.crisis_detection.has_crisis_language
           /\ text_result.overall_risk_level = "Critical"

\* the number of characters of a text that are not blank
NonBlank(text) == Cardinality({i \in 1..Len(text) : ~IsSpace(CharAt(text, i))})

\* the level stated for the largest category risk, a numerator over den
StatedLevel(crisis, max_risk, den) ==
    IF crisis THEN "Critical"
    ELSE IF 10 * max_risk >= 7 * den THEN "High"
    ELSE IF 10 * max_risk >= 4 * den THEN "Medium"
    ELSE "Low"

\* C6: for every text of at least 3 non-blank characters the overall level is
\* Critical exactly when crisis language was detected, whatever the category
\* risks; otherwise High when the largest category risk is at least 0.7,
\* Medium when it is at least 0.4 and below 0.7, and Low below 0.4
C6_OverallLevel ==
    (Analyzed /\ NonBlank(request.text) >= 3)
        => /\ text_result.kind = "ok"
           /\ text_result.overall_risk_level = "Critical"
                  <=> text_result.crisis_detection.has_crisis_language
           /\ text_result.overall_risk_level =
                  StatedLevel(text_result.crisis_detection.has_crisis_language,
                              MaxRisk(text_result.category_risks), text_result.risk_den)

\* an analysis with crisis language whose category risks are all below 0.4
C6_Witness ==
    /\ Analyzed
    /\ NonBlank(request.text) >= 3
    /\ text_result.crisis_detection.has_crisis_language
    /\ 10 * MaxRisk(text_result.category_risks) < 4 * text_result.risk_den
    /\ text_result.overall_risk_level = "Critical"

\* the variance of six scores in hundredths, times 36 * 10000
StatedVariance(scores) ==
    6 * SumOver([c \in Cats |-> scores[c] * scores[c]], Cats)
    - SumOver(scores, Cats) * SumOver(scores, Cats)

\* 0.7, + 0.1 for the complete feature set, + 0.1 when the variance of the six
\* scores is below 0.5 or - 0.1 when it is above 1.5, limited to [0.5, 0.99]
StatedConfidence(scores) ==
    LET raw == 70 + 10
               + (IF StatedVariance(scores) < 36 * 5000 THEN 10
                  ELSE IF StatedVariance(scores) > 36 * 15000 THEN -10 ELSE 0)
    IN IF raw < 50 THEN 50 ELSE IF raw > 99 THEN 99 ELSE raw

\* C7: the confidence of every assessment lies in [0.5, 0.99] and is the stated
\* function of the feature set and the variance of the category scores; the
\* confidence of every text analysis, the one of an empty or too short text
\* included, lies in [0, 0.95]
C7_ConfidenceRanges ==
    /\ Assessed
         => /\ prediction.confidence_score >= 50
            /\ prediction.confidence_score <= 99
            /\ prediction.confidence_score = StatedConfidence(prediction.category_scores)
    /\ Analyzed
         => /\ text_result.confidence_score >= 0
            /\ text_result.confidence_score <= 95

\* an assessment whose scores vary by more than 1.5
C7_Witness ==
    /\ Assessed
    /\ StatedVariance(prediction.category_scores) > 36 * 15000
    /\ prediction.confidence_score = 70

(***************************************************************************)
(* Properties of the benchmark and of the intervention priorities, under   *)
(* SpecComponents                                                          *)
(***************************************************************************)
\* predict_organizational_risk has returned an assessment
AssessedCohort == Aggregated /\ org_result.kind = "ok"

\* the baseline stated for the domain of the request, in hundredths
StatedBaseline ==
    LET info == request.organization_info
        domain == IF info = None \/ "domain" \notin DOMAIN info THEN "missing"
                  ELSE info.domain
    IN CASE domain = "Healthcare" -> 1650
         [] domain = "University" -> 1920
         [] domain = "Business" -> 1800
         [] OTHER -> 1800

\* the sum of the cohort's overall scores, less the baseline for each member:
\* sample_size times (meanOverall - baseline), in hundredths
AboveBaseline ==
    org_result.aggregated_statistics.overall.sum - org_result.sample_size * StatedBaseline

\* sample_size times ((meanOverall - baseline + 5) / 10) x 100 limited to
\* [5, 95], in tenths of a percent
StatedPercentile ==
    LET n == org_result.sample_size
        raw == AboveBaseline + 500 * n
    IN IF raw < 50 * n THEN 50 * n ELSE IF raw > 950 * n THEN 950 * n ELSE raw

\* C8 as stated: benchmark_percentile is ((meanOverall - baseline + 5)/10) x
\* 100 limited to [5, 95] and industry_comparison is meanOverall - baseline
C8_PercentileExact ==
    AssessedCohort
        => /\ org_result.benchmark_percentile * org_result.sample_size = StatedPercentile
           /\ org_result.industry_comparison * org_result.sample_size = AboveBaseline

\* C8: benchmark_percentile is ((meanOverall - baseline + 5)/10) x 100 limited
\* to [5, 95] and then rounded to one decimal place, with baseline 16.5 for
\* Healthcare, 19.2 for University, 18.0 for Business and for an unknown or
\* missing domain; a mean 50 points above the baseline gives at most 95, one 50
\* points below at least 5; industry_comparison is meanOverall - baseline
\* rounded to two decimal places
C8_PercentileRounded ==
    AssessedCohort
        => LET n == org_result.sample_size
           IN /\ 2 * Abs(org_result.benchmark_percentile * n - StatedPercentile) <= n
              /\ org_result.benchmark_percentile >= 50
              /\ org_result.benchmark_percentile <= 950
              /\ AboveBaseline >= 5000 * n => org_result.benchmark_percentile <= 950
              /\ AboveBaseline <= -5000 * n => org_result.benchmark_percentile >= 50
              /\ 2 * Abs(org_result.industry_comparison * n - AboveBaseline) <= n

\* a cohort whose mean lies 50 points below the baseline, at percentile 5
C8_Witness ==
    /\ AssessedCohort
    /\ AboveBaseline = -5000 * org_result.sample_size
    /\ org_result.benchmark_percentile = 50

StatedWeights == <<30, 25, 20, 30, 25, 20>>

\* the ranked list of all six categories for the cohort of the assessment
Ranked == calculate_intervention_priorities(org_result.aggregated_statistics)

\* in a ranked list, of two categories with equal risk rate the one with the
\* higher weight has the higher urgency score and comes earlier
WeightOrdered(ranked) ==
    \A i \in DOMAIN ranked : \A j \in DOMAIN ranked :
        ( /\ ranked[i].risk_count = ranked[j].risk_count
          /\ StatedWeights[ranked[i].category_id] > StatedWeights[ranked[j].category_id] )
            => /\ ranked[i].urgency_score > ranked[j].urgency_score
               /\ i < j

\* C9: of two categories of a cohort with equal risk rate, the one with the
\* higher weight has the higher urgency score and comes earlier in the ranked
\* list; the category scores of a cohort lie in [1, 4]
C9_WeightDrivesUrgency ==
    AssessedCohort
        => \A ranked \in {Ranked} :
               /\ org_result.intervention_priorities = SubSeq(ranked, 1, 3)
               /\ WeightOrdered(ranked)

\* two categories of equal risk rate where the one of higher weight also has
\* the higher mean score
C9_Witness ==
    /\ AssessedCohort
    /\ \E ranked \in {Ranked} : \E i \in DOMAIN ranked : \E j \in DOMAIN ranked :
           /\ ranked[i].risk_count = ranked[j].risk_count
           /\ StatedWeights[ranked[i].category_id] > StatedWeights[ranked[j].category_id]
           /\ ranked[i].score_sum > ranked[j].score_sum
           /\ i < j

(***************************************************************************)
(* Properties of process_survey_campaign, under Spec                       *)
(***************************************************************************)
\* the last call was process_survey_campaign on a stored campaign that has
\* the 5 responses a run needs
CampaignRun ==
    /\ Get(request, "op", "") = "process_survey_campaign"
    /\ campaign_result # None
    /\ request.campaign_id \in DOMAIN db.campaigns
    /\ Len(db.campaigns[request.campaign_id].responses) >= 5

\* the per-response prediction of a response fails on the pipeline as it is
PredictionFails(response) == HasError(predict_individual_risk(pipeline, response).result)

\* C10: when the prediction of one response of a campaign fails, the remaining
\* responses are still processed, the failed response is absent from the list
\* handed to the aggregation and every response whose prediction succeeded is
\* in that list
C10_FailureIsolation ==
    CampaignRun
        => LET responses == db.campaigns[request.campaign_id].responses
           IN /\ campaign_result.kind = "ok"
              /\ campaign_result.processing_summary.total_responses = Len(responses)
              /\ \A i \in DOMAIN responses :
                     PredictionFails(responses[i])
                         <=> ~\E k \in DOMAIN campaign_result.individual_predictions :
                                 campaign_result.individual_predictions[k].response_id
                                     = responses[i].response_id

(***************************************************************************)
(* Properties of the pipeline's running statistics, under Spec             *)
(***************************************************************************)
\* the list a campaign run handed to the organizational aggregation
HandedToAggregation(result) ==
    IF result.kind = "ok" THEN result.individual_predictions ELSE <<>>

\* the responses of a campaign that are not in the list handed to aggregation
Excluded(responses, result) ==
    { i \in DOMAIN responses :
        ~\E k \in DOMAIN HandedToAggregation(result) :
            HandedToAggregation(result)[k].response_id = responses[i].response_id }

\* C11: over a campaign run failed_predictions grows by exactly the number of
\* responses excluded from the aggregation list, and a response whose
\* individual prediction carries an error is counted as a failure
C11_NoSilentDrop ==
    [][ /\ (ProcessSurveyCampaign /\ request'.campaign_id \in DOMAIN db.campaigns)
            => pipeline'.prediction_stats.failed_predictions
                   - pipeline.prediction_stats.failed_predictions
               = Cardinality(Excluded(db.campaigns[request'.campaign_id].responses,
                                      campaign_result'))
        /\ (PredictIndividualRisk /\ HasError(prediction'))
            => pipeline'.prediction_stats.failed_predictions
                   = pipeline.prediction_stats.failed_predictions + 1 ]_vars

\* C12: every call of predict_individual_risk, successful or failing, adds one
\* to total_predictions, and total_predictions stays the sum of
\* successful_predictions and failed_predictions
C12_CountersConsistent ==
    [][ PredictIndividualRisk
            => /\ pipeline'.prediction_stats.total_predictions
                      = pipeline.prediction_stats.total_predictions + 1
               /\ pipeline'.prediction_stats.total_predictions
                      = pipeline'.prediction_stats.successful_predictions
                        + pipeline'.prediction_stats.failed_predictions ]_vars

(***************************************************************************)
(* Properties of the persistence of process_survey_campaign, under Spec    *)
(***************************************************************************)
\* a profile stored by an earlier run
StoredProfile ==
    [overall_hseg_score |-> 1525, overall_risk_tier |-> "At_Risk", sample_size |-> 7,
     confidence_level |-> 540, statistical_significance |-> FALSE,
     benchmark_percentile |-> 375, industry_comparison |-> -125]

\* the database with a profile already stored for the campaign
WithStoredProfile(database, campaign_id) ==
    [database EXCEPT !.organization_risk_profiles =
        [key \in DOMAIN @ \cup {<<database.campaigns[campaign_id].org_id, campaign_id>>} |->
            IF key = <<database.campaigns[campaign_id].org_id, campaign_id>>
            THEN StoredProfile ELSE @[key]]]

\* the number of responses whose individual prediction is valid on pipeline p
ValidPredictions(p, responses) ==
    Cardinality({ i \in DOMAIN responses :
                    predict(p.individual_model.is_trained, responses[i]).kind = "ok" })

\* a run that ended in the given state wrote no profile
KeepsProfiles(database, out) ==
    out.db.organization_risk_profiles = database.organization_risk_profiles

\* a pipeline holding the given models
PipelineWith(m) ==
    [NewPipeline EXCEPT !.individual_model = m[1], !.text_classifier = m[2],
                        !.org_model = m[3]]

\* states of the three models: the individual model trained or not, the text
\* classifier rule-based or model-based, the aggregator new or loaded
ModelStates ==
    { <<[is_trained |-> i], t, o>> :
        i \in BOOLEAN,
        t \in {NewPipeline.text_classifier, TrainedPipeline.text_classifier},
        o \in { NewOrgModel,
                [is_loaded |-> TRUE, has_risk_model |-> TRUE, has_turnover_model |-> TRUE] } }

\* the database a run starts from, with or without a profile stored before
DatabaseBefore(campaign_id, stored) ==
    IF stored THEN WithStoredProfile(InitialDatabase, campaign_id) ELSE InitialDatabase

\* the runs of the body of process_survey_campaign, entered with the campaign
\* read: for every state of the models, stored campaign, outcome of the
\* commits and database before, the arguments <<models, campaign_id,
\* commit_fails, stored>> with what the body returns
BodyRuns ==
    { <<x, ProcessCampaign(PipelineWith(x[1]), DatabaseBefore(x[2], x[4]), x[2],
                           Campaigns[x[2]], NoML, x[3])>> :
        x \in ModelStates \X (DOMAIN Campaigns) \X BOOLEAN \X BOOLEAN }

\* the body writes no profile when fewer than 5 predictions are valid
BodyKeepsProfiles ==
    \A run \in BodyRuns :
        ValidPredictions(PipelineWith(run[1][1]), Campaigns[run[1][2]].responses) < 5
            => KeepsProfiles(DatabaseBefore(run[1][2], run[1][4]), run[2])

\* C13: whenever fewer than 5 responses of a campaign yield a valid individual
\* prediction, process_survey_campaign writes no OrganizationRiskProfile for
\* the pair and leaves a profile stored before unchanged; so does the body of
\* the handler once the campaign was read
C13_NoPartialProfile ==
    /\ \A campaign_id \in DOMAIN db.campaigns :
           ValidPredictions(pipeline, db.campaigns[campaign_id].responses) < 5
               => \A commit_fails \in BOOLEAN :
                      \A database \in {db, WithStoredProfile(db, campaign_id)} :
                          \A out \in {process_survey_campaign(pipeline, database,
                                           campaign_id, NoML, commit_fails)} :
                              KeepsProfiles(database, out)
    /\ BodyKeepsProfiles

\* a run of a campaign of 5 responses, 4 of them with a valid prediction, has
\* ended and no profile is stored
C13_Witness ==
    /\ CampaignRun
    /\ ValidPredictions(pipeline, db.campaigns[request.campaign_id].responses) = 4
    /\ db.organization_risk_profiles = <<>>

EventsOf(result) == IF result.kind = "ok" THEN result.events ELSE <<>>

\* the organizational prediction starts only when the individual prediction
\* of every response has returned, and none returns after it
JoinedBeforeAggregation(responses, events) ==
    \A k \in DOMAIN events :
        events[k][1] = "organizational"
            => /\ \A i \in DOMAIN responses :
                      \E j \in 1..(k - 1) :
                          events[j] = <<"individual", responses[i].response_id>>
               /\ \A j \in (k + 1)..Len(events) : events[j][1] # "individual"

\* every run of the body joins before it aggregates
BodyJoins ==
    \A run \in BodyRuns :
        JoinedBeforeAggregation(Campaigns[run[1][2]].responses, EventsOf(run[2].result))

\* some run of the body predicts 5 responses and then aggregates
BodyAggregates ==
    \E run \in BodyRuns :
        /\ Len(EventsOf(run[2].result)) = 6
        /\ EventsOf(run[2].result)[6][1] = "organizational"

\* C15: in process_survey_campaign the organizational prediction of a campaign
\* is started only after the individual prediction of every response of the
\* campaign has finished, and no individual prediction of the campaign starts
\* or completes after the aggregation has begun
C15_JoinBeforeAggregation ==
    /\ CampaignRun
         => JoinedBeforeAggregation(db.campaigns[request.campaign_id].responses,
                                    EventsOf(campaign_result))
    /\ BodyJoins

\* a run of the campaign of 5 valid responses has ended, and the body run on
\* it aggregates after the fifth prediction
C15_Witness ==
    /\ CampaignRun
    /\ request.campaign_id = "c3"
    /\ pipeline.individual_model.is_trained
    /\ BodyAggregates

(***************************************************************************)
(* Properties of the statistics under concurrent callers, under Spec.      *)
(* predict_individual_risk contains no await, so calls of concurrent       *)
(* callers run one after the other on the event loop, in any order: the    *)
(* steps of PredictIndividualRisk.                                         *)
(***************************************************************************)
\* C16: once all concurrent calls of predict_individual_risk have returned,
\* no counter update is lost: total_predictions is the sum of
\* successful_predictions and failed_predictions
C16_AtomicStatistics ==
    pipeline.prediction_stats.total_predictions
        = pipeline.prediction_stats.successful_predictions
          + pipeline.prediction_stats.failed_predictions

(***************************************************************************)
(* Properties of the persistence failure handling of a campaign run        *)
(***************************************************************************)
\* a run of the body in which a write was attempted: a prediction without
\* 'error' was handed to _store_individual_prediction
AttemptedWrite(run) == Len(HandedToAggregation(run[2].result)) > 0

\* C17: when the writes of a campaign run on the pipeline fail, and fail again
\* when retried, the error is surfaced to the caller: the run does not report
\* success for records that were not stored
C17_PersistenceFailureSurfaced ==
    \A run \in BodyRuns :
        (run[1][1][1] = pipeline.individual_model /\ run[1][3] /\ AttemptedWrite(run))
            => /\ run[2].result.kind = "error"
               /\ run[2].db = DatabaseBefore(run[1][2], run[1][4])

(***************************************************************************)
(* Properties of the tier of an organizational assessment, under           *)
(* SpecComponents                                                          *)
(***************************************************************************)
\* a tier classifier is loaded and returns a tier for the cohort
ClassifierTierAvailable ==
    /\ pipeline.org_model.has_risk_model
    /\ ~request.ml.features_raise
    /\ ~request.ml.risk_raises

\* C18: for a cohort of at least 5 assessments predict_organizational_risk
\* completes; when a loaded tier classifier returns a tier the assessment has
\* that tier, with turnover, legal risk, productivity, engagement and
\* retention computed, and the heuristic decides the tier only when no
\* classifier tier is available
C18_ClassifierPreferred ==
    (Aggregated /\ Len(request.individual_predictions) >= 5)
        => /\ org_result.kind = "ok"
           /\ DOMAIN org_result.predicted_outcomes
                  = {"predicted_turnover_rate", "predicted_legal_risk",
                     "predicted_productivity_impact", "predicted_engagement_score",
                     "predicted_retention_rate"}
           /\ ClassifierTierAvailable => org_result.overall_risk_tier = request.ml.tier
           /\ ~ClassifierTierAvailable
                => org_result.overall_risk_tier
                       = HeuristicTier(org_result.aggregated_statistics.crisis_count,
                                       org_result.aggregated_statistics.at_risk_count,
                                       org_result.aggregated_statistics.overall.sum,
                                       org_result.sample_size)

(***************************************************************************)
(* Properties of the tier projections of a cohort, under SpecComponents    *)
(***************************************************************************)
\* the number of members of the cohort with a tier among the given ones
MembersWithTier(tiers) ==
    Cardinality({ i \in DOMAIN request.individual_predictions :
                    request.individual_predictions[i].overall_risk_tier \in tiers })

\* the number of members whose overall score lies above 12 and up to 16
MembersAtRisk ==
    Cardinality({ i \in DOMAIN request.individual_predictions :
                    /\ request.individual_predictions[i].overall_score_28 > 12 * Score28Den
                    /\ request.individual_predictions[i].overall_score_28 <= 16 * Score28Den })

\* C19: for a cohort of assessments produced by predict the tier distribution
\* counts each individual's assigned tier, crisis_rate is the fraction of
\* individuals of tier Crisis, at_risk_rate the fraction of tier At_Risk
\* (overall score above 12 and up to 16) and safe_rate the fraction of tier
\* Safe or Thriving; the rates are kept as counts over sample_size
C19_TierProjections ==
    (AssessedCohort /\ ValidCohort)
        => LET stats == org_result.aggregated_statistics
           IN /\ \A tier \in DOMAIN stats.risk_distribution :
                     stats.risk_distribution[tier] = MembersWithTier({tier})
              /\ stats.crisis_count = MembersWithTier({"Crisis"})
              /\ stats.safe_count = MembersWithTier({"Safe", "Thriving"})
              /\ stats.at_risk_count = MembersAtRisk

(***************************************************************************)
(* Properties of the contributing factors, under SpecComponents            *)
(***************************************************************************)
\* the categories of the assessment with a score under 2.0
LowCategories == { c \in Cats : prediction.category_scores[c] < 200 }

\* the label at position i of the list is the label of a low category that
\* has the i-th lowest score (equal scores may come in either order)
RankedLabelAt(factors, i) ==
    \E c \in LowCategories :
        /\ factors[i] = category_names[c]
        /\ Cardinality({ d \in LowCategories :
               prediction.category_scores[d] < prediction.category_scores[c] }) <= i - 1
        /\ Cardinality({ d \in LowCategories :
               prediction.category_scores[d] <= prediction.category_scores[c] }) >= i

\* the flags that apply to the request, in the order crisis language,
\* specific incident, new employee
FlagsThatApply ==
    (IF Get(request.text_analysis, "crisis_language_present", FALSE)
     THEN <<"Crisis-level language in responses">> ELSE <<>>)
    \o (IF Get(request.text_analysis, "specific_incident_described", FALSE)
        THEN <<"Specific harmful incidents reported">> ELSE <<>>)
    \o (IF Get(request.demographics, "tenure_range", "") = "<1_year"
        THEN <<"New employee vulnerability">> ELSE <<>>)

\* C20: the contributing factors of an assessment are the labels of the
\* categories with a score under 2.0 in ascending order of score, followed by
\* the crisis-language, specific-incident and new-employee flags that apply,
\* and the list is cut at 5 entries
C20_ContributingFactors ==
    Assessed
        => LET factors == prediction.contributing_factors
               n == Cardinality(LowCategories)
               total == n + Len(FlagsThatApply)
           IN /\ Len(factors) = (IF total > 5 THEN 5 ELSE total)
              /\ \A i \in DOMAIN factors :
                     IF i <= n THEN RankedLabelAt(factors, i)
                     ELSE factors[i] = FlagsThatApply[i - n]

(***************************************************************************)
(* Properties of the individual interventions, under SpecComponents        *)
(***************************************************************************)
\* the three lowest-scoring categories of the assessment: fewer than three
\* categories come before c in ascending order of score, equal scores in
\* category order
WorstThree ==
    { c \in Cats :
        Cardinality({ d \in Cats :
            \/ prediction.category_scores[d] < prediction.category_scores[c]
            \/ /\ prediction.category_scores[d] = prediction.category_scores[c]
               /\ d < c }) < 3 }

\* the categories an intervention is due for
InterventionCategories == { c \in WorstThree : prediction.category_scores[c] < 250 }

\* the category whose lookup-table entry is the given intervention
CategoryOf(intervention) == CHOOSE c \in Cats : intervention_mapping[c] = intervention

\* C21: the recommended interventions are empty when the overall tier is
\* Mixed, Safe or Thriving; when it is Crisis or At Risk they are the
\* lookup-table entries of those of the three lowest-scoring categories that
\* score under 2.5, lowest first: at most 3 entries, each for a category under
\* 2.5, and nothing stands in for a worst-three category at 2.5 or more
C21_Interventions ==
    Assessed
        => LET interventions == prediction.recommended_interventions
           IN IF prediction.overall_risk_tier \in {"Mixed", "Safe", "Thriving"}
              THEN interventions = <<>>
              ELSE /\ prediction.overall_risk_tier \in {"Crisis", "At Risk"}
                   /\ Len(interventions) <= 3
                   /\ Len(interventions) = Cardinality(InterventionCategories)
                   /\ { interventions[i] : i \in DOMAIN interventions }
                          = { intervention_mapping[c] : c \in InterventionCategories }
                   /\ \A i, j \in DOMAIN interventions :
                          i < j => prediction.category_scores[CategoryOf(interventions[i])]
                                      <= prediction.category_scores[CategoryOf(interventions[j])]

\* an assessment of tier Crisis or At Risk with a worst-three category at 2.5
\* or more, which got one or two interventions
C21_Witness ==
    /\ Assessed
    /\ prediction.overall_risk_tier \in {"Crisis", "At Risk"}
    /\ \E c \in WorstThree : prediction.category_scores[c] >= 250
    /\ Len(prediction.recommended_interventions) \in {1, 2}

(***************************************************************************)
(* Properties of the organizational intervention ranking, under            *)
(* SpecComponents                                                          *)
(***************************************************************************)
\* riskRate x 0.4 + (1 - meanScore/28) x 0.4 + (weight/3) x 0.2 of a category
\* of the assessed cohort, as a numerator over UrgencyDen(sample_size)
StatedUrgency(cat_id) ==
    LET stats == org_result.aggregated_statistics
        n == stats.sample_size
    IN 16800 * stats.categories[cat_id].risk_count
       + 16800 * n - 6 * stats.categories[cat_id].stats.sum
       + 280 * StatedWeights[cat_id] * n

\* Immediate above 0.7, High above 0.5, Medium above 0.3, else Low
StatedUrgencyTier(cat_id) ==
    LET den == UrgencyDen(org_result.sample_size)
    IN IF 10 * StatedUrgency(cat_id) > 7 * den THEN "Immediate"
       ELSE IF 10 * StatedUrgency(cat_id) > 5 * den THEN "High"
       ELSE IF 10 * StatedUrgency(cat_id) > 3 * den THEN "Medium"
       ELSE "Low"

\* the categories listed in the returned priorities
Listed ==
    { org_result.intervention_priorities[i].category_id :
        i \in DOMAIN org_result.intervention_priorities }

\* C22: the intervention_priorities returned for a cohort of at least 5 have
\* exactly 3 entries of distinct categories in non-increasing order of urgency
\* score, no category left out has a higher urgency score than a listed one,
\* each urgency score is riskRate x 0.4 + (1 - meanScore/28) x 0.4
\* + (weight/3) x 0.2 and each urgency tier follows the 0.7 / 0.5 / 0.3
\* thresholds
C22_InterventionRanking ==
    AssessedCohort
        => LET priorities == org_result.intervention_priorities
           IN /\ Len(request.individual_predictions) >= 5
              /\ Len(priorities) = 3
              /\ Cardinality(Listed) = 3
              /\ \A i \in DOMAIN priorities :
                     /\ priorities[i].category_id \in Cats
                     /\ priorities[i].urgency_score = StatedUrgency(priorities[i].category_id)
                     /\ priorities[i].urgency = StatedUrgencyTier(priorities[i].category_id)
              /\ \A i, j \in DOMAIN priorities :
                     i < j => priorities[i].urgency_score >= priorities[j].urgency_score
              /\ \A c \in Cats \ Listed : \A d \in Listed :
                     StatedUrgency(c) <= StatedUrgency(d)

\* a ranking that differs from the category order: the first entry has a
\* higher category id and a higher urgency score than the third, and the
\* entries are not all of one urgency tier
C22_Witness ==
    /\ AssessedCohort
    /\ org_result.intervention_priorities[1].category_id
           > org_result.intervention_priorities[3].category_id
    /\ org_result.intervention_priorities[1].urgency_score
           > org_result.intervention_priorities[3].urgency_score
    /\ org_result.intervention_priorities[1].urgency
           # org_result.intervention_priorities[3].urgency

(***************************************************************************)
(* Properties of the emotional intensity, under SpecComponents             *)
(***************************************************************************)
\* min(1, emotionalWordCount x 0.2 + exclamationCount x 0.1 + capsRatio x 0.3)
\* of the input text, capsRatio being its uppercase characters over its
\* length; a numerator over IntensityDen(text)
StatedIntensity(text) ==
    LET len == Max(Len(text), 1)
        emotional_count ==
            Cardinality({i \in DOMAIN emotional_words :
                            Contains(LowerFrom(text, 1), emotional_words[i])})
        caps == Cardinality({i \in 1..Len(text) : IsUpper(CharAt(text, i))})
    IN Min(10 * len, (2 * emotional_count + CountChar(text, "!")) * len + 3 * caps)

\* C23: the emotional intensity reported by predict_text_risk for a text is
\* min(1, emotionalWordCount x 0.2 + exclamationCount x 0.1 + capsRatio x 0.3)
\* with the capsRatio of the input text, and lies in [0, 1]
C23_EmotionalIntensity ==
    (Analyzed /\ text_result.kind = "ok")
        => /\ text_result.emotional_intensity >= 0
           /\ text_result.emotional_intensity <= text_result.intensity_den
           /\ text_result.emotional_intensity * IntensityDen(request.text)
                  = StatedIntensity(request.text) * text_result.intensity_den

(***************************************************************************)
(* Properties of the text signals in the per-response flow, under Spec     *)
(***************************************************************************)
\* an individual assessment returned by predict_individual_risk whose text
\* was analyzed
AssessedWithText ==
    /\ Get(request, "op", "") = "predict_individual_risk"
    /\ prediction # None
    /\ prediction.kind = "ok"
    /\ prediction.text_risk_analysis # EmptyDict

\* the number of category factors of the assessment
CategoryFactorCount ==
    Cardinality({ c \in Cats : prediction.category_scores[c] < 200 })

InFactors(factor) ==
    \E i \in DOMAIN prediction.contributing_factors :
        prediction.contributing_factors[i] = factor

\* C24: when the text analyzer run by predict_individual_risk detects crisis
\* language and fewer than 5 category factors precede it, the contributing
\* factors of the assessment hold 'Crisis-level language in responses';
\* likewise a detected specific incident yields 'Specific harmful incidents
\* reported'
C24_TextSignalsReachAssessment ==
    (AssessedWithText /\ CategoryFactorCount < 5)
        => /\ prediction.text_risk_analysis.crisis_detection.has_crisis_language
                  => InFactors("Crisis-level language in responses")
           /\ ( /\ prediction.text_risk_analysis.kind = "ok"
                /\ prediction.text_risk_analysis.risk_indicators.has_specific_incidents
                /\ CategoryFactorCount < 4 )
                  => InFactors("Specific harmful incidents reported")

(***************************************************************************)
(* Properties of the persisted organizational profile of a campaign run    *)
(***************************************************************************)
\* a run of the body whose organizational prediction succeeded and whose
\* writes were committed
PredictedAndCommitted(run) ==
    /\ ~run[1][3]
    /\ run[2].result.kind = "ok"
    /\ ~HasError(run[2].result.organizational_prediction)

\* the profile stored for the campaign of the run, equal in the five fields
\* to the assessment computed in the run
ProfileMatchesAssessment(run) ==
    LET key == <<Campaigns[run[1][2]].org_id, run[1][2]>>
        assessment == run[2].result.organizational_prediction
    IN /\ key \in DOMAIN run[2].db.organization_risk_profiles
       /\ \A profile \in {run[2].db.organization_risk_profiles[key]} :
              /\ profile.overall_hseg_score = assessment.overall_hseg_score
              /\ profile.overall_risk_tier = assessment.overall_risk_tier
              /\ profile.sample_size = assessment.sample_size
              /\ profile.confidence_level = assessment.confidence_level
              /\ profile.statistical_significance = assessment.statistical_significance

\* C25: after a campaign run on the pipeline in which the organizational
\* prediction succeeded, the OrganizationRiskProfile stored for (org, campaign)
\* has overall_hseg_score, overall_risk_tier, sample_size, confidence_level and
\* statistical_significance equal to those of the assessment computed in the run
C25_PersistedMatchesComputed ==
    \A run \in BodyRuns :
        (run[1][1][1] = pipeline.individual_model /\ PredictedAndCommitted(run))
            => ProfileMatchesAssessment(run)

(***************************************************************************)
(* Properties of the reported score and tier, under SpecComponents         *)
(***************************************************************************)
\* the tier the thresholds 12, 16, 20 and 24 give to a score in hundredths
TierOfReported(score) ==
    IF score <= 1200 THEN "Crisis"
    ELSE IF score <= 1600 THEN "At Risk"
    ELSE IF score <= 2000 THEN "Mixed"
    ELSE IF score <= 2400 THEN "Safe"
    ELSE "Thriving"

\* C26: for every assessment returned by predict, the 28-point tier thresholds
\* applied to the reported overall_hseg_score (the score rounded to 2
\* decimals) yield the reported overall_risk_tier
C26_ScoreAndTierAgree ==
    Assessed => TierOfReported(prediction.overall_hseg_score) = prediction.overall_risk_tier

(***************************************************************************)
(* Properties of the urgency floor, under SpecComponents                   *)
(***************************************************************************)
\* the category scores of the assessed cohort lie in [1, 4]
CategoryScoresInRange ==
    \A c \in Cats :
        /\ org_result.aggregated_statistics.categories[c].stats.min >= 100
        /\ org_result.aggregated_statistics.categories[c].stats.max <= 400

\* C27: for every cohort whose category scores lie in [1, 4], the urgency
\* score that calculate_intervention_priorities computes for each of the six
\* categories is greater than 0.3, and no priority has the urgency tier Low
C27_UrgencyFloor ==
    (AssessedCohort /\ CategoryScoresInRange)
        => \A ranked \in {Ranked} :
               /\ Len(ranked) = 6
               /\ \A i \in DOMAIN ranked :
                      /\ 10 * ranked[i].urgency_score
                             > 3 * UrgencyDen(org_result.sample_size)
                      /\ ranked[i].urgency # "Low"

\* a cohort with a category of the lowest weight in which no member is at
\* risk, ranked Medium
C27_Witness ==
    /\ AssessedCohort
    /\ CategoryScoresInRange
    /\ \E ranked \in {Ranked} : \E i \in DOMAIN ranked :
           /\ ranked[i].risk_count = 0
           /\ StatedWeights[ranked[i].category_id] = 20
           /\ ranked[i].urgency = "Medium"

(***************************************************************************)
(* Properties of the crisis keyword list, under SpecComponents             *)
(***************************************************************************)
\* the phrases of the crisis keyword list that the text holds verbatim
PhrasesPresent(text) ==
    { i \in DOMAIN crisis_keywords : Contains(text, crisis_keywords[i]) }

\* C28: for each phrase of the crisis keyword list and any text that contains
\* it verbatim, the crisis detection of the text reports has_crisis_language,
\* lists the phrase in crisis_keywords, and crisis_count is the number of
\* distinct phrases listed, at least the number of phrases present
C28_EveryCrisisPhraseDetectable ==
    (Analyzed /\ text_result.kind = "ok")
        => \A detection \in {text_result.crisis_detection} :
               /\ \A i \in PhrasesPresent(request.text) :
                      /\ detection.has_crisis_language
                      /\ \E k \in DOMAIN detection.crisis_keywords :
                             detection.crisis_keywords[k] = crisis_keywords[i]
               /\ detection.crisis_count
                      = Cardinality({ detection.crisis_keywords[k] :
                                        k \in DOMAIN detection.crisis_keywords })
               /\ detection.crisis_count >= Cardinality(PhrasesPresent(request.text))

(***************************************************************************)
(* Properties of the readiness of the pipeline, under Spec                 *)
(***************************************************************************)
\* predict_individual_risk on a well-formed response fails on the pipeline as
\* it is with the message of the untrained model
UntrainedFailure ==
    \E out \in {PredictWithTextAnalysis(pipeline, CampaignResponses[1], EmptyDict)} :
        /\ HasError(out.result)
        /\ out.result.error = "Model must be trained before making predictions"

\* C29: in every state reached through initialize_pipeline and reload_models
\* in which pipeline_ready is true the individual risk model is trained, so
\* predict_individual_risk on a well-formed response does not fail with 'Model
\* must be trained before making predictions'; pipeline_ready and
\* models_loaded are equal
C29_ReadyImpliesCanPredict ==
    /\ pipeline.pipeline_ready = pipeline.models_loaded
    /\ pipeline.pipeline_ready
         => /\ pipeline.individual_model.is_trained
            /\ ~UntrainedFailure

(***************************************************************************)
(* Properties of the health reporting, under Spec                          *)
(***************************************************************************)
\* C30: a call of health_check or of get_pipeline_status leaves
\* total_predictions, successful_predictions and failed_predictions as they
\* were before the call
C30_HealthReportingReadOnly ==
    [][ (HealthCheck \/ GetPipelineStatus)
            => pipeline'.prediction_stats = pipeline.prediction_stats ]_vars

====
